---- MODULE Spec2Model ----
(***************************************************************************)
(* The GitHub-to-PostgreSQL synchronizer of src/parser: the remote data    *)
(* client (requests.py) and the three-step database update (update.py).    *)
(*                                                                         *)
(* Dates are day numbers (0 is 1970-01-01).  An author name is a string;   *)
(* NoName stands for a name that is None or empty (both are falsy at       *)
(* requests.py:216).  NoDate stands for a missing or empty committer date. *)
(***************************************************************************)
EXTENDS Integers, Sequences, FiniteSets, TLC

VARIABLES
    \* ---- request_repo_activity (requests.py:143-225), one call ----
    act_stream,     \* the commits the remote held for the call's last request, in remote order
    act_pc,         \* "idle" (no call), "probe", "pages", "done" (returned) or "raised"
                    \* (exception escaped)
    act_failed,     \* TRUE once a request of the call failed with HTTPError
    link,           \* the probe's Link header (requests.py:158): "unread", "absent" or "present"
    page,           \* the next page to request (range(1, pages_count + 1))
    pages_count,    \* ceil(commits_total / 100)
    last_date,      \* requests.py:178
    commit_count,   \* requests.py:179
    authors,        \* requests.py:180
    act_out,        \* the RepoActivity instances yielded so far, in order
    act_requests,   \* number of page requests issued so far
    \* ---- the database (tables repositories, activity, previous_places) ----
    repositories,   \* id -> row; the committed rows, as every connection sees them
    repo_id_seq,    \* the last value the sequence of repositories.id handed out
    activity,       \* <<repo_id, date>> -> [commits, authors (a sorted list)]
    previous_places,\* repo_id -> place
    duplicates,     \* <<table, key>> of the keys of activity and previous_places under
                    \* which the table holds a further row
    \* ---- the remote (GitHub) ----
    remote_repos,   \* GitHub id -> the metadata GET /repos/{owner}/{repo} returns
    remote_commits, \* GitHub id -> the repository's commits, newest first
    \* ---- update_database (update.py:58-275): the run of the process self ----
    cfg,            \* the arguments every run of the process is called with
    proc,           \* the process of the cloud function: the entry point that is running,
                    \* common.logging._called, the number of handlers of the root logger
    pc,             \* "idle", "rank", "select", "update", "fetch", "done" or "raised"
    error,          \* the exception that escaped the run, or None
    runs,           \* number of runs started
    new_repo_limit, \* update.py:92-101
    after_github_id,\* update.py:107
    existing_repos, \* rows of the query at update.py:159-171 not iterated yet
    updated_repos,  \* update.py:153, 173
    tx,             \* the transaction of the repository in progress (update.py:183, 239):
                    \* the statements executed in it and not yet committed
    merge_snapshot, \* <<the tables as the merge of step 1 read them>> while the
                    \* statement is being executed, otherwise <<>>
    \* ---- request_public_repositories (requests.py:78-118), the run's generator ----
    last_id,        \* requests.py:94
    curr,           \* requests.py:95
    data,           \* entries of the current listing page not iterated yet
    \* ---- bookkeeping of what happened ----
    iterated,       \* full names step 2 of this run iterated over
    failed_repos,   \* those of them whose request_repo returned None
    yielded,        \* GitHub ids the generator yielded in this run, in order
    writes,         \* rows this run inserted or updated: <<table, key>>
    start_repositories, \* table repositories as the first statement of this run found it
    event,          \* what the last step did
    list_requests,  \* listing requests of this run
    exhausted,      \* a listing request of this run returned no entry
    faults,         \* requests that failed so far
    changes,        \* changes of the remote dataset so far
    \* ---- two processes on one database ----
    self,           \* the process whose run the variables above describe: 1 or 2
    other           \* the run of the other process: its values of those variables

act_vars == <<act_stream, act_pc, act_failed, link, page, pages_count, last_date,
              commit_count, authors, act_out, act_requests>>

db_vars == <<repositories, repo_id_seq, activity, previous_places, duplicates>>
remote_vars == <<remote_repos, remote_commits>>
run_vars == <<cfg, proc, pc, error, runs, new_repo_limit, after_github_id, existing_repos,
              updated_repos, tx>>
gen_vars == <<last_id, curr, data>>
log_vars == <<iterated, failed_repos, yielded, writes, start_repositories, event,
              list_requests, exhausted, faults, changes>>
\* What only a step of the scheduler or of the merge of step 1 changes
apart_vars == <<self, other, merge_snapshot>>

sync_vars == <<db_vars, remote_vars, run_vars, gen_vars, log_vars, apart_vars>>

vars == <<act_vars, sync_vars>>

-----------------------------------------------------------------------------
(* Values *)

None == "None"

\* A process: the entry point that is running, common.logging._called, the number
\* of handlers of the root logger, and what "from parser.update import
\* update_database" raises in it (None when the module loads)
Process(entry, called, handlers, import_error) ==
    [entry |-> entry, called |-> called, handlers |-> handlers, import_error |-> import_error]
\* A process in which no entry point runs and logging is not initialised
NoProcess == Process("none", FALSE, 0, None)
NoName == ""
NoDate == -1

\* requests.py:184 (per_page=100) and requests.py:176 (ceil(commits_total / 100))
PER_PAGE == 100

\* The length bound of an author name. requests.py:14 imports the name from
\* common.models, which does not define it; the value is the bound of the type of
\* RepoActivity.authors (CommitAuthorNameType, models.py:6, 10, 33-34)
MAX_AUTHOR_NAME_LENGTH == 100

\* A name of MAX_AUTHOR_NAME_LENGTH + 1 characters
LongName == "aaaaaaaaaaaaaaaaaaaaaaaaaaaaaaaaaaaaaaaaaaaaaaaaaaaaaaaaaaaaaaaaaaaaaaaaaaaaaaaaaaaaaaaaaaaaaaaaaaaaa"

\* Longest enumerated base stream of the activity specification
MaxLen == 3

Min(a, b) == IF a < b THEN a ELSE b
Max(a, b) == IF a > b THEN a ELSE b

\* math.ceil(a / b) for a >= 0, b > 0
Ceil(a, b) == (a + b - 1) \div b

\* A commit object of the GitHub API, reduced to what parse_commit reads:
\* commit['commit']['committer'] (FALSE when null), its 'date' and its 'name'.
Commit(c, d, n) == [committer |-> c, date |-> d, name |-> n]

CommitChoices ==
    { Commit(TRUE, 2, "A"), Commit(TRUE, 2, "B"), Commit(TRUE, 1, "A"),
      Commit(TRUE, 1, NoName), Commit(TRUE, 1, LongName),
      Commit(TRUE, NoDate, "B"), Commit(FALSE, NoDate, NoName) }

RECURSIVE SeqsUpTo(_, _)
SeqsUpTo(S, n) ==
    IF n = 0 THEN { <<>> }
    ELSE LET shorter == SeqsUpTo(S, n - 1)
         IN  shorter \cup { Append(s, x) : s \in { t \in shorter : Len(t) = n - 1 }, x \in S }

\* base with its i-th commit repeated k more times
Expand(base, i, k) ==
    SubSeq(base, 1, i) \o [j \in 1..k |-> base[i]] \o SubSeq(base, i + 1, Len(base))

\* Streams that fit one page, and streams that one long run spreads over two pages
Streams ==
    LET bases == SeqsUpTo(CommitChoices, MaxLen)
    IN  bases \cup { Expand(b, i, PER_PAGE - 1) : b \in { t \in bases : Len(t) = MaxLen },
                                                  i \in 1..MaxLen }

-----------------------------------------------------------------------------
(* requests.py: parse_commit and the aggregation loop of request_repo_activity *)

\* parse_commit: None (ok = FALSE) unless the committer and its date are present
parse_commit(commit) ==
    IF commit.committer /\ commit.date # NoDate
    THEN [ok |-> TRUE, date |-> commit.date, name |-> commit.name]
    ELSE [ok |-> FALSE, date |-> NoDate, name |-> NoName]

RepoActivity(d, c, a) == [date |-> d, commits |-> c, authors |-> a]

\* The generator's local state between two commits
AggState(ld, cc, au, out) == [last_date |-> ld, commit_count |-> cc, authors |-> au, out |-> out]

AggInit == AggState(NoDate, 0, {}, <<>>)

\* requests.py:216
AuthorAccepted(name) == name # NoName /\ Len(name) <= MAX_AUTHOR_NAME_LENGTH

\* AggCommit without the reset of commit_count at a new date
AggCommitNoReset(st, commit) ==
    LET da == parse_commit(commit)
        flushed ==
            IF st.last_date # da.date
            THEN IF st.last_date = NoDate
                 THEN [st EXCEPT !.last_date = da.date]
                 ELSE AggState(da.date, st.commit_count, {},
                               Append(st.out, RepoActivity(st.last_date, st.commit_count, st.authors)))
            ELSE st
    IN  IF ~da.ok THEN st
        ELSE [flushed EXCEPT
                !.commit_count = @ + 1,
                !.authors = IF AuthorAccepted(da.name) THEN @ \cup {da.name} ELSE @]

\* AggCommit that counts a commit parse_commit returns None for
AggCommitCountsDateless(st, commit) ==
    LET da == parse_commit(commit)
        flushed ==
            IF st.last_date # da.date
            THEN IF st.last_date = NoDate
                 THEN [st EXCEPT !.last_date = da.date]
                 ELSE AggState(da.date, 0, {},
                               Append(st.out, RepoActivity(st.last_date, st.commit_count, st.authors)))
            ELSE st
    IN  IF ~da.ok THEN [st EXCEPT !.commit_count = @ + 1]
        ELSE [flushed EXCEPT
                !.commit_count = @ + 1,
                !.authors = IF AuthorAccepted(da.name) THEN @ \cup {da.name} ELSE @]

\* The body of "for commit in data" (requests.py:195-217)
AggCommit(st, commit) ==
    LET da == parse_commit(commit)
        flushed ==
            IF st.last_date # da.date
            THEN IF st.last_date = NoDate
                 THEN [st EXCEPT !.last_date = da.date]
                 ELSE AggState(da.date, 0, {},
                               Append(st.out, RepoActivity(st.last_date, st.commit_count, st.authors)))
            ELSE st
    IN  IF ~da.ok THEN st
        ELSE [flushed EXCEPT
                !.commit_count = @ + 1,
                !.authors = IF AuthorAccepted(da.name) THEN @ \cup {da.name} ELSE @]

\* "for commit in data" (requests.py:194-217) over the commits lo..hi of a page, in
\* order: the first half of the range, then the second from the state the first left
RECURSIVE AggRange(_, _, _, _)
AggRange(st, pg, lo, hi) ==
    IF lo > hi THEN st
    ELSE IF lo = hi THEN AggCommit(st, pg[lo])
    ELSE LET mid == (lo + hi) \div 2
             left == AggRange(st, pg, lo, mid)
         IN  IF left.commit_count >= 0 THEN AggRange(left, pg, mid + 1, hi) ELSE left

\* AggPage that yields the activity of the date in progress at the end of the page
AggPageFlushes(st, pg) ==
    LET r == AggRange(st, pg, 1, Len(pg))
    IN  IF r.commit_count > 0
        THEN AggState(r.last_date, 0, {},
                      Append(r.out, RepoActivity(r.last_date, r.commit_count, r.authors)))
        ELSE r

AggPage(st, pg) == AggRange(st, pg, 1, Len(pg))

\* requests.py:219-225: the activity of the remaining date
AggFinal(st) ==
    IF st.commit_count > 0
    THEN Append(st.out, RepoActivity(st.last_date, st.commit_count, st.authors))
    ELSE st.out

\* The remote's answer to "...&per_page=100&page=p"
RemotePage(stream, p) ==
    SubSeq(stream, PER_PAGE * (p - 1) + 1, Min(PER_PAGE * p, Len(stream)))

\* The Link header of the probe (per_page=1): absent when nothing matches, otherwise
\* its last page number is the number of matching commits (requests.py:159-169)
LinkOf(stream) == [present |-> Len(stream) > 0, last |-> Len(stream)]

\* Outcomes of one HTTP request: a response, an HTTPError, or another URLError
\* (no connection), which only "except HTTPError" does not catch
Outcomes == {"ok", "http", "url"}

\* requests.py:165-176: what the call does with the probe's Link header lk:
\* return at once without one, otherwise request ceil(commits_total / 100) pages
AfterProbeMissingLinkAsOne(lk) ==
    IF ~lk.present THEN [pc |-> "pages", pages_count |-> 1]
    ELSE [pc |-> "pages", pages_count |-> Ceil(lk.last, PER_PAGE)]

AfterProbe(lk) ==
    IF ~lk.present THEN [pc |-> "done", pages_count |-> 0]
    ELSE [pc |-> "pages", pages_count |-> Ceil(lk.last, PER_PAGE)]

-----------------------------------------------------------------------------
(* The remote dataset and the configuration *)

\* Repositories the remote lists (GitHub ids 1..NumRemote)
NumRemote == 3
\* Entries of one page of GET /repositories?since=..
ListPage == 2
\* Runs of update_database in one behaviour
MaxRuns == 3
\* Listing requests of one run
MaxListRequests == 4
\* Requests that fail in one behaviour
MaxFaults == 1
\* Changes of the remote dataset in one behaviour
MaxChanges == 1
\* Repositories the remote lists to two processes
NumOverlapRemote == 2
\* Largest new_repo_limit and after_github_id a run is configured with
MaxLimit == 2
MaxAfter == 1

\* math.inf (update.py:93, 99): above every integer of the model
Inf == 1000000

RemoteIds == 1..NumRemote

\* The owner and name of the repository with GitHub id i
RepoNames ==
    << [owner |-> "o1", repo |-> "a"], [owner |-> "o2", repo |-> "b"],
       [owner |-> "o3", repo |-> "c"], [owner |-> "o4", repo |-> "d"],
       [owner |-> "o5", repo |-> "e"] >>

\* f'{owner}/{repo}' (update.py:149, 177; requests.py:113)
FullName(owner, repo) == <<owner, repo>>

GithubIdOf(full_name) ==
    CHOOSE i \in 1..Len(RepoNames) : FullName(RepoNames[i].owner, RepoNames[i].repo) = full_name

\* The fields of GET /repos/{owner}/{repo} that request_repo reads (requests.py:61-68)
Meta(s, w, f, o, l) ==
    [stargazers_count |-> s, watchers_count |-> w, forks_count |-> f,
     open_issues_count |-> o, language |-> l]

\* The remote dataset before the first run: two repositories with as many stars, one
\* with fewer
InitMeta(gid) == Meta(IF gid = 3 THEN 1 ELSE 2, 0, 0, 0, "py")

\* What a change of the remote turns the metadata m into: more stars, or no language
ChangedMetas(m) ==
    { [m EXCEPT !.stargazers_count = @ + 1], [m EXCEPT !.language = None] } \ {m}

\* Commit histories of the remote, newest first
TwoDays == << Commit(TRUE, 2, "A"), Commit(TRUE, 1, "B"), Commit(TRUE, 1, "A") >>
\* The repository with GitHub id 2 has no commit
InitStream(gid) == IF gid = 2 THEN <<>> ELSE TwoDays
NewCommit == Commit(TRUE, 3, "B")

Config(t, sr, su, lim, aft) ==
    [github_token |-> t, skip_rank_update |-> sr, skip_repo_update |-> su,
     new_repo_limit |-> lim, after_github_id |-> aft]

\* new_repo_limit is <<>> for None and <<n>> for the integer n; -1 stands for the
\* negative values max(0, ..) clamps
Configs ==
    { Config(t, sr, su, lim, aft) :
        t \in {None, "token"}, sr \in BOOLEAN, su \in BOOLEAN,
        lim \in {<<>>} \cup { <<n>> : n \in {-1} \cup 1..MaxLimit },
        aft \in {-1} \cup 1..MaxAfter }

-----------------------------------------------------------------------------
(* common/models.py and requests.py: request_repo *)

\* RepoData (models.py:13-23)
RepoData(owner, repo, m) ==
    [owner |-> owner, repo |-> repo, stars |-> m.stargazers_count,
     watchers |-> m.watchers_count, forks |-> m.forks_count,
     open_issues |-> m.open_issues_count, language |-> m.language]

\* pydantic's validation of RepoData (models.py:6-8, 17-23): a repo of 1 to 100
\* characters, an owner of 1 to 39, NonNegativeInt counts, a language of 1 to 100
\* characters or None
ValidRepoData(d) ==
    /\ Len(d.repo) >= 1 /\ Len(d.repo) <= 100
    /\ Len(d.owner) >= 1 /\ Len(d.owner) <= 39
    /\ d.stars >= 0 /\ d.watchers >= 0 /\ d.forks >= 0 /\ d.open_issues >= 0
    /\ d.language = None \/ (Len(d.language) >= 1 /\ Len(d.language) <= 100)

\* Answers to GET /repos/{owner}/{repo}: the metadata; an HTTPError; another URLError
\* (no connection); a payload with a negative count; a payload without a key
RepoAnswers == {"ok", "http", "url", "invalid", "malformed"}

\* request_repo (requests.py:50-75) on the answer a for the repository whose
\* metadata is m: its RepoData, None, or the exception it lets through
request_repo(owner, repo, m, a) ==
    LET payload == IF a = "invalid" THEN [m EXCEPT !.stargazers_count = -1] ELSE m
        d == RepoData(owner, repo, payload)
    IN  CASE a = "http" -> [kind |-> "none", error |-> None, data |-> d]
          [] a = "url" -> [kind |-> "raise", error |-> "URLError", data |-> d]
          [] a = "malformed" -> [kind |-> "raise", error |-> "KeyError", data |-> d]
          [] OTHER -> IF ValidRepoData(d)
                      THEN [kind |-> "data", error |-> None, data |-> d]
                      ELSE [kind |-> "none", error |-> None, data |-> d]

-----------------------------------------------------------------------------
(* requests.py: request_repo_activity as a function of the call's requests *)

\* Where a call's requests fail: nowhere (at = -1), at the probe (at = 0) or at
\* page at; how: "http" (HTTPError) or "url" (another URLError)
NoFault == [at |-> -1, how |-> "ok"]
Fault(at, how) == [at |-> at, how |-> how]

\* The pages from p on (requests.py:181-225)
RECURSIVE PagesFrom(_, _, _, _, _)
PagesFrom(st, stream, p, pcount, fault) ==
    IF p > pcount THEN [out |-> AggFinal(st), raised |-> FALSE]
    ELSE IF fault.at = p
         THEN [out |-> st.out, raised |-> (fault.how = "url")]
         ELSE LET nxt == AggPage(st, RemotePage(stream, p))
              IN  IF nxt.commit_count >= 0
                  THEN PagesFrom(nxt, stream, p + 1, pcount, fault)
                  ELSE [out |-> nxt.out, raised |-> FALSE]

\* request_repo_activity (requests.py:143-225): the activities it yields for the
\* matching commits stream, and whether an exception escapes it
request_repo_activity(stream, fault) ==
    IF fault.at = 0
    THEN [out |-> <<>>, raised |-> (fault.how = "url")]
    ELSE LET ap == AfterProbe(LinkOf(stream))
         IN  IF ap.pc = "done" THEN [out |-> <<>>, raised |-> FALSE]
             ELSE PagesFrom(AggInit, stream, 1, ap.pages_count, fault)

\* The commits GET /repos/{owner}/{repo}/commits?since=.. matches (since is inclusive)
CommitsSince(stream, since) ==
    SelectSeq(stream, LAMBDA c : c.date = NoDate \/ c.date >= since)

\* The faults a call can meet on the matching commits stream
FaultsOf(stream) ==
    {NoFault} \cup { Fault(at, how) : at \in 0..Ceil(Len(stream), PER_PAGE), how \in {"http", "url"} }

-----------------------------------------------------------------------------
(* update.py: the statements on the database *)

\* The order of the author names of the model; sorted(activity.authors) (update.py:53)
NameOrder == << "A", "B", LongName >>

sorted(names) == SelectSeq(NameOrder, LAMBDA n : n \in names)

\* SQL's a <> b is true only when neither side is NULL
SqlNe(a, b) == a # None /\ b # None /\ a # b

ExtendFn(f, k, v) == [x \in (DOMAIN f) \cup {k} |-> IF x = k THEN v ELSE f[x]]

Written(table, keys) == { <<table, k>> : k \in keys }

\* The table activity as a statement works on it: the rows, those the statements so
\* far wrote, and the keys under which they stored a row beside the one stored
ActivityTable(act) == [activity |-> act, written |-> {}, duplicated |-> {}]

\* The constraint repo_id_date_tuple of activity (update.py:43), unique (repo_id,
\* date): a row of this repository and date conflicts with the row stored for them
repo_id_date_tuple(act, repo_id, date) == <<repo_id, date>> \in DOMAIN act

\* UpsertActivity without the where clause of "do update"
UpsertActivityAlways(db, repo_id, a) ==
    LET key == <<repo_id, a.date>>
        row == [commits |-> a.commits, authors |-> sorted(a.authors)]
    IN  [db EXCEPT !.activity = ExtendFn(@, key, row), !.written = @ \cup {key}]

\* insert into activity .. on conflict on constraint repo_id_date_tuple do update ..
\* where (update.py:38-55): the table after the statement, and the rows it wrote. A
\* row that conflicts with none is inserted, beside the row of its key if there is one
UpsertActivity(db, repo_id, a) ==
    LET key == <<repo_id, a.date>>
        row == [commits |-> a.commits, authors |-> sorted(a.authors)]
    IN  IF ~repo_id_date_tuple(db.activity, repo_id, a.date)
        THEN [db EXCEPT !.activity = ExtendFn(@, key, row), !.written = @ \cup {key},
                        !.duplicated = @ \cup ({key} \cap DOMAIN db.activity)]
        ELSE IF db.activity[key].commits # row.commits \/ db.activity[key].authors # row.authors
             THEN [db EXCEPT !.activity = ExtendFn(@, key, row), !.written = @ \cup {key}]
             ELSE db

RECURSIVE UpsertAll(_, _, _, _)
UpsertAll(db, repo_id, out, i) ==
    IF i > Len(out) THEN db
    ELSE UpsertAll(UpsertActivity(db, repo_id, out[i]), repo_id, out, i + 1)

\* Since that is 1970-01-01 whatever last_activity_date is
SinceEpochAlways(last_activity_date) == 0

\* The date update_activity requests from (update.py:33-36): last_activity_date, or
\* 1970-01-01 when it is None
Since(last_activity_date) ==
    IF last_activity_date = NoDate THEN 0 ELSE last_activity_date

\* update_activity (update.py:13-55) against a remote that does not change during
\* the call, for the repository stored as repo_id with the commit history stream:
\* the table afterwards, the rows written, whether an exception escaped
update_activity(act, repo_id, stream, last_activity_date, fault) ==
    LET since == Since(last_activity_date)
        res == request_repo_activity(CommitsSince(stream, since), fault)
        db == UpsertAll(ActivityTable(act), repo_id, res.out, 1)
    IN  [activity |-> db.activity, written |-> db.written, raised |-> res.raised]

\* The ids of the rows in the order of "order by stars desc" (update.py:128); rows
\* with equal stars are peers, taken here in the order of their ids
RECURSIVE OrderByStarsDesc(_, _)
OrderByStarsDesc(repos, ids) ==
    IF ids = {} THEN <<>>
    ELSE LET top == CHOOSE i \in ids :
                        \A j \in ids : \/ repos[j].stars < repos[i].stars
                                       \/ (repos[j].stars = repos[i].stars /\ j >= i)
         IN  <<top>> \o OrderByStarsDesc(repos, ids \ {top})

\* dense_rank() in place of rank(): peers count once
RankDense(repos, id) ==
    LET order == OrderByStarsDesc(repos, DOMAIN repos)
    IN  Cardinality({ repos[order[p]].stars :
                        p \in { q \in 1..Len(order) : repos[order[q]].stars >= repos[id].stars } })

\* rank() over (order by stars desc) (update.py:128): the position of the row's
\* first peer in the order
Rank(repos, id) ==
    LET order == OrderByStarsDesc(repos, DOMAIN repos)
    IN  CHOOSE p \in 1..Len(order) :
            /\ repos[order[p]].stars = repos[id].stars
            /\ \A q \in 1..(p - 1) : repos[order[q]].stars # repos[id].stars

\* MergePlaces without its "when matched" branch
MergePlacesInsertOnly(repos, places) ==
    LET ids == DOMAIN repos
        inserted == ids \ DOMAIN places
    IN  [places |-> [id \in (DOMAIN places) \cup ids |->
                        IF id \in inserted THEN Rank(repos, id) ELSE places[id]],
         written |-> inserted]

\* MergePlaces without "and place <> p": every matched row is updated
MergePlacesRewriteAll(repos, places) ==
    LET ids == DOMAIN repos
    IN  [places |-> [id \in (DOMAIN places) \cup ids |->
                        IF id \in ids THEN Rank(repos, id) ELSE places[id]],
         written |-> ids]

\* merge into previous_places (update.py:123-140): the table afterwards and the
\* rows it updated or inserted
MergePlaces(repos, places) ==
    LET ids == DOMAIN repos
        updated == { id \in ids \cap DOMAIN places : places[id] # Rank(repos, id) }
        inserted == ids \ DOMAIN places
    IN  [places |-> [id \in (DOMAIN places) \cup ids |->
                        IF id \in updated \cup inserted THEN Rank(repos, id) ELSE places[id]],
         written |-> updated \cup inserted]

\* The tables repositories and previous_places as a statement reads them
Snapshot(repos, places) == [repositories |-> repos, previous_places |-> places]

\* previous_places is unique on repo_id: a row of this repository conflicts with the
\* row stored for it
previous_places_unique(places, repo_id) == repo_id \in DOMAIN places

\* The merge (update.py:123-140) that read the tables as snap, on the table places
\* as it is when the statement writes: the rows of MergePlaces not matched in snap
\* are inserted, and one that conflicts with a row stored since is a uniqueness
\* violation, which ends the statement with nothing written; a matched row that
\* was updated since is written only if "place <> p" holds of it as it is now
MergeInto(snap, places) ==
    LET m == MergePlaces(snap.repositories, snap.previous_places)
        inserted == m.written \ DOMAIN snap.previous_places
        updated == { id \in m.written \cap DOMAIN snap.previous_places :
                        places[id] = snap.previous_places[id] \/ places[id] # m.places[id] }
    IN  IF \E id \in inserted : previous_places_unique(places, id)
        THEN [places |-> places, written |-> {}, duplicated |-> {},
              error |-> "UniqueViolation"]
        ELSE [places |-> [id \in (DOMAIN places) \cup inserted |->
                             IF id \in inserted \cup updated THEN m.places[id] ELSE places[id]],
              written |-> inserted \cup updated,
              duplicated |-> inserted \cap DOMAIN places,
              error |-> None]

\* Step 1 that merges whatever skip_rank_update says
Step1PlacesAlways(skip, snap, places) == MergeInto(snap, places)

\* Step 1 (update.py:118-142): nothing when skip_rank_update, otherwise the merge
Step1Places(skip, snap, places) ==
    IF skip THEN [places |-> places, written |-> {}, duplicated |-> {}, error |-> None]
    ELSE MergeInto(snap, places)

\* RowDiffers without the comparisons: the where clause is "id = .." alone
RowDiffersAlways(row, d) == TRUE

\* The where clause of "update repositories" (update.py:194-203)
RowDiffers(row, d) ==
    \/ row.stars # d.stars
    \/ row.watchers # d.watchers
    \/ row.forks # d.forks
    \/ row.open_issues # d.open_issues
    \/ SqlNe(row.language, d.language)

\* UpdateRow without the where clause on the values
UpdateRowUnconditional(row, d) ==
    [row |-> [row EXCEPT !.stars = d.stars, !.watchers = d.watchers,
                          !.forks = d.forks, !.open_issues = d.open_issues,
                          !.language = d.language],
     written |-> TRUE]

\* update repositories set .. where id = .. and (..) (update.py:186-213): the row
\* afterwards, and whether the statement wrote it
UpdateRow(row, d) ==
    IF RowDiffers(row, d)
    THEN [row |-> [row EXCEPT !.stars = d.stars, !.watchers = d.watchers,
                              !.forks = d.forks, !.open_issues = d.open_issues,
                              !.language = d.language],
          written |-> TRUE]
    ELSE [row |-> row, written |-> FALSE]

\* HandledAfter that adds a repository only when its metadata was fetched
HandledOnSuccess(updated, full_name, repo_data) ==
    IF repo_data.kind = "data" THEN updated \cup {full_name} ELSE updated

\* updated_repos.add(full_name), "regardless of the request result" (update.py:175-178)
HandledAfter(updated, full_name, repo_data) == updated \cup {full_name}

\* (owner, repo) is unique in repositories
Stored(repos, owner, repo) ==
    \E i \in DOMAIN repos : repos[i].owner = owner /\ repos[i].repo = repo

\* nextval of the sequence behind repositories.id: the column's default, evaluated
\* for every row an insert proposes, also when the row then conflicts or the
\* transaction is rolled back
NextId(seq) == seq + 1

\* InsertRepo without a unique (owner, repo): the row is stored once more
InsertRepoDuplicate(repos, new_id, d) == [repositories |-> ExtendFn(repos, new_id, d), id |-> new_id]

\* InsertRepo that returns the id of the row it conflicts with
InsertRepoReturning(repos, new_id, d) ==
    IF Stored(repos, d.owner, d.repo)
    THEN [repositories |-> repos,
          id |-> CHOOSE j \in DOMAIN repos : repos[j].owner = d.owner /\ repos[j].repo = d.repo]
    ELSE [repositories |-> ExtendFn(repos, new_id, d), id |-> new_id]

\* InsertRepo as "on conflict do update": the stored row is overwritten and returned
InsertRepoUpsert(repos, new_id, d) ==
    IF Stored(repos, d.owner, d.repo)
    THEN LET i == CHOOSE j \in DOMAIN repos : repos[j].owner = d.owner /\ repos[j].repo = d.repo
         IN  [repositories |-> [repos EXCEPT ![i] = d], id |-> i]
    ELSE [repositories |-> ExtendFn(repos, new_id, d), id |-> new_id]

\* insert into repositories .. on conflict do nothing returning id (update.py:242-265)
\* of a row that is given the id new_id: the table afterwards and the new row's id,
\* or 0 when cursor.fetchone() is None
InsertRepo(repos, new_id, d) ==
    IF Stored(repos, d.owner, d.repo)
    THEN [repositories |-> repos, id |-> 0]
    ELSE [repositories |-> ExtendFn(repos, new_id, d), id |-> new_id]

\* max(date) of the repository's activity rows, NoDate (NULL) without rows
\* (update.py:165-167)
LastActivityDate(act, repo_id) ==
    LET dates == { k[2] : k \in { x \in DOMAIN act : x[1] = repo_id } }
    IN  IF dates = {} THEN NoDate ELSE CHOOSE d \in dates : \A e \in dates : e <= d

\* The rows of the query of step 2 (update.py:159-171). The query has no "order
\* by": the rows are a set, and the loop takes them in the order the database
\* happens to return them
SelectExisting(repos, act) ==
    { [id |-> i, owner |-> repos[i].owner, repo |-> repos[i].repo,
       last_activity_date |-> LastActivityDate(act, i)] : i \in DOMAIN repos }

\* AllFullNames that reads no row
AllFullNamesNone(repos) == {}

\* select (owner || '/' || repo) from repositories (update.py:147-153)
AllFullNames(repos) == { FullName(repos[i].owner, repos[i].repo) : i \in DOMAIN repos }

\* GET /repositories?since=id of a remote that holds the repositories 1..count: the
\* next ListPage entries with a larger id, ascending
RemoteListing(count, since) ==
    [k \in 1..Min(ListPage, Max(0, count - Max(since, 0))) |->
        [id |-> Max(since, 0) + k,
         owner |-> RepoNames[Max(since, 0) + k].owner,
         name |-> RepoNames[Max(since, 0) + k].repo]]

\* The tables and the rows written, as a transaction finds and leaves them
Tables(repos, act, written, dups) ==
    [repositories |-> repos, activity |-> act, writes |-> written, duplicates |-> dups]

\* No transaction is open
NoTx ==
    [open |-> FALSE, step |-> "none", id |-> 0, gid |-> 0, since |-> NoDate, data |-> <<>>,
     row |-> <<>>, row_written |-> FALSE, activity |-> <<>>, written |-> {},
     duplicated |-> {}, locked |-> {}, waits |-> "none", waited |-> FALSE,
     pending |-> <<>>]

\* A transaction in which the statement on repositories was executed (update.py:183-213,
\* 239-265) for the repository gid stored as id: data is what request_repo returned,
\* row the row as the statement leaves it, since the date update_activity requests
\* from. The row it wrote is locked until the transaction ends. waits names the
\* statement that is not executed yet ("send": not sent, else the one that waits for
\* the other run's transaction), waited says the statement on repositories had to
\* wait, pending are the activities the generator has yielded whose upsert is not
\* executed yet
OpenTx(step, id, gid, since, d, row, row_written) ==
    [open |-> TRUE, step |-> step, id |-> id, gid |-> gid, since |-> since, data |-> d,
     row |-> row, row_written |-> row_written, activity |-> <<>>,
     written |-> { <<"repositories", k>> : k \in IF row_written THEN {id} ELSE {} },
     duplicated |-> {},
     locked |-> { <<"repositories", k>> : k \in IF row_written THEN {id} ELSE {} },
     waits |-> "none", waited |-> FALSE, pending |-> <<>>]

\* request_repo has returned d for the repository gid (update.py:179, requests.py:115)
\* and the block "with conn.transaction()" is entered (update.py:183, 239): BEGIN reads
\* and locks no row. The statement on repositories is not sent yet: the other run and
\* the remote can act before it is. id is the row's id in step 2 and 0 in step 3,
\* where the insert draws it
Answered(step, id, gid, since, d) ==
    [OpenTx(step, id, gid, since, d, d, FALSE) EXCEPT !.waits = "send"]

\* A transaction whose statement on repositories ("insert" or "update") is sent and
\* waits for the end of another transaction: nothing is written yet
Waiting(step, id, gid, since, d) ==
    [OpenTx(step, id, gid, since, d, d, FALSE) EXCEPT !.waits = step]

\* The insert of the transaction t returned no row (update.py:262-264): continue
\* leaves the block without a call of update_activity
Conflicted(t) == t.open /\ t.step = "insert" /\ t.waits = "none" /\ ~t.row_written

\* The transaction o holds the lock of the row key of table: it wrote the row, or an
\* upsert of it found the row ("do update" locks the row it conflicts with before
\* the where clause is evaluated)
RowLocked(o, table, key) == o.open /\ <<table, key>> \in o.locked

\* An insert of the repository d waits for the transaction o: o inserted a row of
\* the same (owner, repo) and has not ended, so whether the rows conflict is open
InsertWaits(o, d) ==
    /\ o.open /\ o.step = "insert" /\ o.row_written
    /\ o.data.owner = d.owner /\ o.data.repo = d.repo

\* The table activity as the statements of the transaction t see it: the committed
\* rows under the rows t has written
Visible(act, t) ==
    [k \in (DOMAIN act) \cup (DOMAIN t.activity) |->
        IF k \in DOMAIN t.activity THEN t.activity[k] ELSE act[k]]

\* The transaction t after the upsert of the activity a (update.py:38-55)
UpsertedOne(act, t, a) ==
    LET db == UpsertActivity(ActivityTable(Visible(act, t)), t.id, a)
    IN  [t EXCEPT !.activity = [k \in (DOMAIN t.activity) \cup db.written |-> db.activity[k]],
                  !.written = @ \cup Written("activity", db.written),
                  !.duplicated = @ \cup Written("activity", db.duplicated),
                  !.locked = @ \cup {<<"activity", <<t.id, a.date>>>>}]

\* The tables once the statements of the transaction t are committed
Applied(tables, t) ==
    Tables(IF t.row_written THEN ExtendFn(tables.repositories, t.id, t.row)
                            ELSE tables.repositories,
           Visible(tables.activity, t),
           tables.writes \cup t.written,
           tables.duplicates \cup t.duplicated)

\* transaction that keeps what was executed before the exception
transactionAutocommit(before, after, raised) == after

\* with conn.transaction() (update.py:183, 239): the block's statements are committed
\* when it ends, rolled back when an exception leaves it
transaction(before, after, raised) == IF raised THEN before ELSE after

\* ListingStart that resumes above the largest GitHub id stored
ListingStartAboveStored(after, repos) ==
    LET ids == { GithubIdOf(FullName(repos[i].owner, repos[i].repo)) : i \in DOMAIN repos }
    IN  IF ids = {} THEN after
        ELSE Max(after, CHOOSE g \in ids : \A h \in ids : h <= g)

\* The id the generator starts after: the argument after_github_id, whatever is
\* stored (update.py:232-236, requests.py:94)
ListingStart(after, repos) == after

\* BelowLimit off by one
BelowLimitInclusive(c, limit) == c <= limit

\* curr < limit (requests.py:96, 108)
BelowLimit(c, limit) == c < limit

-----------------------------------------------------------------------------
(* The state of the synchronizer before its first run *)

NoEvent == [kind |-> "none"]

\* The run of a process that has not called update_database, and will call it with
\* the arguments c
Suspended(c) ==
    [act_stream |-> <<>>, act_pc |-> "idle", act_failed |-> FALSE, link |-> "unread",
     page |-> 1, pages_count |-> 0, last_date |-> NoDate, commit_count |-> 0,
     authors |-> {}, act_out |-> <<>>, act_requests |-> 0, cfg |-> c, pc |-> "idle",
     error |-> None, new_repo_limit |-> 0, after_github_id |-> 0, existing_repos |-> {},
     updated_repos |-> {}, tx |-> NoTx, merge_snapshot |-> <<>>, last_id |-> 0, curr |-> 0,
     data |-> <<>>, iterated |-> {}, failed_repos |-> {}, yielded |-> <<>>, writes |-> {},
     start_repositories |-> <<>>, event |-> NoEvent, list_requests |-> 0,
     exhausted |-> FALSE]

\* One process: there is no other run
Alone ==
    /\ self = 1
    /\ other = Suspended(<<>>)

\* The tables as create_tables.py leaves them
EmptyTables ==
    /\ repositories = <<>>
    /\ repo_id_seq = 0
    /\ activity = <<>>
    /\ previous_places = <<>>
    /\ duplicates = {}

\* The process has not called update_database
IdleRun ==
    /\ pc = "idle"
    /\ error = None
    /\ new_repo_limit = 0
    /\ after_github_id = 0
    /\ existing_repos = {}
    /\ updated_repos = {}
    /\ tx = NoTx
    /\ merge_snapshot = <<>>
    /\ last_id = 0
    /\ curr = 0
    /\ data = <<>>
    /\ iterated = {}
    /\ failed_repos = {}
    /\ yielded = <<>>
    /\ writes = {}
    /\ start_repositories = <<>>
    /\ event = NoEvent
    /\ list_requests = 0
    /\ exhausted = FALSE

\* Empty tables, nothing running
IdleDatabase ==
    /\ EmptyTables
    /\ IdleRun
    /\ runs = 0
    /\ faults = 0
    /\ changes = 0

-----------------------------------------------------------------------------
(* request_repo_activity as a state machine, one action per request *)

InitActivity ==
    /\ act_stream \in Streams
    /\ act_pc = "probe"
    /\ act_failed = FALSE
    /\ link = "unread"
    /\ page = 1
    /\ pages_count = 0
    /\ last_date = NoDate
    /\ commit_count = 0
    /\ authors = {}
    /\ act_out = <<>>
    /\ act_requests = 0
    /\ IdleDatabase
    /\ remote_repos = <<>>
    /\ remote_commits = <<>>
    /\ cfg = <<>>
    /\ proc = NoProcess
    /\ Alone

\* requests.py:151-176: the probe request and the page count
Probe ==
    /\ act_pc = "probe"
    /\ \E o \in Outcomes :
        IF o = "ok"
        THEN /\ link' = IF LinkOf(act_stream).present THEN "present" ELSE "absent"
             /\ act_pc' = AfterProbe(LinkOf(act_stream)).pc
             /\ pages_count' = AfterProbe(LinkOf(act_stream)).pages_count
             /\ UNCHANGED act_failed
        ELSE /\ act_pc' = IF o = "http" THEN "done" ELSE "raised"
             /\ act_failed' = (o = "http")
             /\ UNCHANGED <<link, pages_count>>
    /\ UNCHANGED <<act_stream, page, last_date, commit_count, authors, act_out, act_requests,
                   sync_vars>>

\* requests.py:181-217: one iteration of "for page in range(1, pages_count + 1)"
RequestPage ==
    /\ act_pc = "pages"
    /\ page <= pages_count
    /\ act_requests' = act_requests + 1
    /\ \E o \in Outcomes :
        IF o = "ok"
        THEN LET st == AggPage(AggState(last_date, commit_count, authors, act_out),
                               RemotePage(act_stream, page))
             IN  /\ last_date' = st.last_date
                 /\ commit_count' = st.commit_count
                 /\ authors' = st.authors
                 /\ act_out' = st.out
                 /\ page' = page + 1
                 /\ UNCHANGED <<act_pc, act_failed>>
        ELSE /\ act_pc' = IF o = "http" THEN "done" ELSE "raised"
             /\ act_failed' = (o = "http")
             /\ UNCHANGED <<last_date, commit_count, authors, act_out, page>>
    /\ UNCHANGED <<act_stream, link, pages_count, sync_vars>>

\* requests.py:219-225: the loop is exhausted
Finish ==
    /\ act_pc = "pages"
    /\ page > pages_count
    /\ act_out' = AggFinal(AggState(last_date, commit_count, authors, act_out))
    /\ act_pc' = "done"
    /\ UNCHANGED <<act_stream, act_failed, link, page, pages_count, last_date,
                   commit_count, authors, act_requests, sync_vars>>

NextActivity == Probe \/ RequestPage \/ Finish

SpecActivity == InitActivity /\ [][NextActivity]_vars

-----------------------------------------------------------------------------
(* update_database as a state machine: one action per request to the remote and one
   per statement the code sends to the database. BEGIN, which reads and locks no row,
   is taken with the answer that precedes it *)

\* No call of request_repo_activity is being followed
IdleActivity ==
    /\ act_stream = <<>>
    /\ act_pc = "idle"
    /\ act_failed = FALSE
    /\ link = "unread"
    /\ page = 1
    /\ pages_count = 0
    /\ last_date = NoDate
    /\ commit_count = 0
    /\ authors = {}
    /\ act_out = <<>>
    /\ act_requests = 0

\* Empty tables (create_tables.py), a remote dataset, a configuration
Init ==
    /\ IdleActivity
    /\ IdleDatabase
    /\ remote_repos = [gid \in RemoteIds |-> InitMeta(gid)]
    /\ remote_commits = [gid \in RemoteIds |-> InitStream(gid)]
    /\ cfg \in Configs
    /\ proc = NoProcess
    /\ Alone

\* "Verify parameters" (update.py:79-108): the exception it raises, or the
\* normalised new_repo_limit and after_github_id
VerifyParameters(c) ==
    LET limit == IF c.new_repo_limit = <<>> THEN Inf ELSE c.new_repo_limit[1]
    IN  CASE c.github_token # None ->
                \* update.py:89 reads requests.headers; the module defines _headers
                [error |-> "AttributeError", new_repo_limit |-> 0, after_github_id |-> 0]
          [] c.github_token = None /\ limit = Inf ->
                \* update.py:95: inf is no int
                [error |-> "TypeError", new_repo_limit |-> 0, after_github_id |-> 0]
          [] OTHER ->
                [error |-> None, new_repo_limit |-> Max(0, limit),
                 after_github_id |-> Max(0, c.after_github_id)]

\* One more request failed, within the failures of a behaviour
FailsWithin(o) ==
    /\ o # "ok" => faults < MaxFaults
    /\ faults' = faults + (IF o = "ok" THEN 0 ELSE 1)

\* The variables no step of a run changes
fixed_vars == <<remote_vars, cfg, proc, runs, new_repo_limit, after_github_id,
                start_repositories, changes>>

\* A call of update_database begins (update.py:79-113)
StartRun ==
    /\ pc \in {"idle", "done", "raised"}
    /\ runs < MaxRuns
    /\ runs' = runs + 1
    /\ LET v == VerifyParameters(cfg)
       IN  /\ error' = v.error
           /\ pc' = IF v.error = None THEN "rank" ELSE "raised"
           /\ new_repo_limit' = v.new_repo_limit
           /\ after_github_id' = v.after_github_id
    /\ existing_repos' = {}
    /\ updated_repos' = {}
    /\ last_id' = 0 /\ curr' = 0 /\ data' = <<>>
    /\ iterated' = {}
    /\ failed_repos' = {}
    /\ yielded' = <<>>
    /\ writes' = {}
    /\ start_repositories' = repositories
    /\ event' = [kind |-> "start"]
    /\ list_requests' = 0
    /\ exhausted' = FALSE
    /\ UNCHANGED <<act_vars, db_vars, remote_vars, cfg, proc, tx, faults, apart_vars, changes>>

\* Step 1 (update.py:118-142): the merge into previous_places, in its own transaction.
\* It is the first statement of the run: what it reads of repositories is what the
\* run began with. It reads the tables as they are, unless it began to read before
\* (MergeReads)
Step1 ==
    /\ pc = "rank"
    /\ LET snap == IF merge_snapshot = <<>> THEN Snapshot(repositories, previous_places)
                                            ELSE merge_snapshot[1]
           m == Step1Places(cfg.skip_rank_update, snap, previous_places)
       IN  /\ previous_places' = m.places
           /\ writes' = writes \cup Written("previous_places", m.written)
           /\ duplicates' = duplicates \cup Written("previous_places", m.duplicated)
           /\ start_repositories' = snap.repositories
           /\ pc' = IF m.error = None THEN "select" ELSE "raised"
           /\ error' = m.error
           /\ event' = [kind |-> IF m.error = None THEN "rank" ELSE "rank_raised"]
    /\ merge_snapshot' = <<>>
    /\ UNCHANGED <<act_vars, remote_vars, cfg, proc, runs, new_repo_limit, after_github_id,
                   changes, repositories, repo_id_seq, activity, existing_repos,
                   updated_repos, tx, gen_vars, iterated, failed_repos, yielded,
                   list_requests, exhausted, faults, self, other>>

\* Step 2 begins (update.py:145-173): the query for the stored repositories; when the
\* step is skipped, step 3 begins (update.py:232-236, requests.py:94-95)
Step2Select ==
    /\ pc = "select"
    /\ IF cfg.skip_repo_update
       THEN /\ updated_repos' = AllFullNames(repositories)
            /\ pc' = "fetch"
            /\ last_id' = ListingStart(after_github_id, repositories)
            /\ UNCHANGED existing_repos
       ELSE /\ existing_repos' = SelectExisting(repositories, activity)
            /\ updated_repos' = {}
            /\ pc' = "update"
            /\ UNCHANGED last_id
    /\ event' = [kind |-> "select"]
    /\ UNCHANGED <<act_vars, fixed_vars, db_vars, error, tx, curr, data, iterated,
                   failed_repos, yielded, writes, list_requests, exhausted, faults, apart_vars>>

\* A call of request_repo_activity begins (requests.py:143-154)
CallBegins ==
    /\ act_stream' = <<>>
    /\ act_pc' = "probe"
    /\ act_failed' = FALSE
    /\ link' = "unread"
    /\ page' = 1
    /\ pages_count' = 0
    /\ last_date' = NoDate
    /\ commit_count' = 0
    /\ authors' = {}
    /\ act_out' = <<>>
    /\ act_requests' = 0

\* The call of request_repo_activity is over: its locals are gone
CallEnds ==
    /\ act_stream' = <<>>
    /\ act_pc' = "idle"
    /\ act_failed' = FALSE
    /\ link' = "unread"
    /\ page' = 1
    /\ pages_count' = 0
    /\ last_date' = NoDate
    /\ commit_count' = 0
    /\ authors' = {}
    /\ act_out' = <<>>
    /\ act_requests' = 0

\* The block "with conn.transaction()" is left (update.py:183-226, 239-272), the
\* statements of t executed and the last request of update_activity, if it was
\* called, ended with the outcome o: by an exception, which rolls the statements back
\* and leaves update_database, or at its end, which commits them; the generator of
\* step 3 is then resumed (requests.py:117-118)
LeaveBlock(t, o) ==
    LET raised == (o = "url")
        before == Tables(repositories, activity, writes, duplicates)
        after == Applied(before, t)
        res == transaction(before, after, raised)
        full_name == FullName(t.data.owner, t.data.repo)
    IN  /\ repositories' = res.repositories
        /\ activity' = res.activity
        /\ writes' = res.writes
        /\ duplicates' = res.duplicates
        /\ tx' = NoTx
        /\ CallEnds
        /\ IF raised
           THEN /\ pc' = "raised"
                /\ error' = "URLError"
                /\ event' = [kind |-> IF t.step = "update" THEN "update_raised"
                                                           ELSE "fetch_raised",
                              name |-> full_name, at |-> "activity",
                              discarded |-> after.writes \ before.writes]
                /\ UNCHANGED curr
           ELSE /\ curr' = IF t.step = "insert" THEN curr + 1 ELSE curr
                /\ event' = IF Conflicted(t)
                            THEN [kind |-> "passed_over", name |-> full_name,
                                  waited |-> t.waited]
                            ELSE [kind |-> IF t.step = "update" THEN "updated"
                                                                ELSE "inserted",
                                  name |-> full_name, id |-> t.id, data |-> t.data,
                                  since |-> t.since, written |-> t.written,
                                  failed |-> (o # "ok")]
                /\ UNCHANGED <<pc, error>>

\* One iteration of the loop of step 2 up to the answer of its metadata request
\* (update.py:174-183, requests.py:50-75)
UpdateRepo ==
    /\ pc = "update"
    /\ ~tx.open
    /\ \E r \in existing_repos : \E answer \in RepoAnswers :
        LET full_name == FullName(r.owner, r.repo)
            gid == GithubIdOf(full_name)
            repo_data == request_repo(r.owner, r.repo, remote_repos[gid], answer)
        IN  /\ FailsWithin(answer)
            /\ existing_repos' = existing_repos \ {r}
            /\ updated_repos' = HandledAfter(updated_repos, full_name, repo_data)
            /\ iterated' = iterated \cup {full_name}
            /\ CASE repo_data.kind = "raise" ->
                      /\ pc' = "raised"
                      /\ error' = repo_data.error
                      /\ event' = [kind |-> "update_raised", name |-> full_name,
                                    at |-> "metadata", discarded |-> {}]
                      /\ UNCHANGED <<tx, failed_repos>>
                 [] repo_data.kind = "none" ->
                      /\ failed_repos' = failed_repos \cup {full_name}
                      /\ event' = [kind |-> "update_skipped", name |-> full_name]
                      /\ UNCHANGED <<tx, pc, error>>
                 [] OTHER ->
                      /\ tx' = Answered("update", r.id, gid, Since(r.last_activity_date),
                                        repo_data.data)
                      /\ event' = [kind |-> "answered", name |-> full_name]
                      /\ UNCHANGED <<pc, error, failed_repos>>
    /\ UNCHANGED <<act_vars, fixed_vars, db_vars, gen_vars, yielded, writes, list_requests,
                   exhausted, apart_vars>>

\* The update of the repository's row is sent (update.py:185-213) with the values
\* request_repo returned, on the row as it is committed now. When the where clause
\* selects the row and the other run's transaction has written it, the statement
\* waits. Executed, update_activity is called (update.py:216, requests.py:143-154)
UpdateStatement ==
    /\ tx.open
    /\ tx.waits = "send"
    /\ tx.step = "update"
    /\ LET upd == UpdateRow(repositories[tx.id], tx.data)
           full_name == FullName(tx.data.owner, tx.data.repo)
       IN  IF upd.written /\ RowLocked(other.tx, "repositories", tx.id)
           THEN /\ tx' = Waiting("update", tx.id, tx.gid, tx.since, tx.data)
                /\ event' = [kind |-> "waiting", name |-> full_name]
                /\ UNCHANGED act_vars
           ELSE /\ tx' = OpenTx("update", tx.id, tx.gid, tx.since, tx.data, upd.row,
                                upd.written)
                /\ CallBegins
                /\ event' = [kind |-> "fetched", name |-> full_name]
    /\ UNCHANGED <<fixed_vars, db_vars, pc, error, existing_repos, updated_repos, gen_vars,
                   iterated, failed_repos, yielded, writes, list_requests, exhausted, faults,
                   apart_vars>>

\* Step 2 is complete, step 3 begins (update.py:228-236, requests.py:94-95)
UpdateDone ==
    /\ pc = "update"
    /\ ~tx.open
    /\ existing_repos = {}
    /\ pc' = "fetch"
    /\ last_id' = ListingStart(after_github_id, repositories)
    /\ event' = [kind |-> "update_done"]
    /\ UNCHANGED <<act_vars, fixed_vars, db_vars, error, existing_repos, updated_repos, tx,
                   curr, data, iterated, failed_repos, yielded, writes, list_requests,
                   exhausted, faults, apart_vars>>

\* The listing request of request_public_repositories (requests.py:96-105)
ListRequest ==
    /\ pc = "fetch"
    /\ ~tx.open
    /\ data = <<>>
    /\ BelowLimit(curr, new_repo_limit)
    /\ list_requests < MaxListRequests
    /\ list_requests' = list_requests + 1
    /\ \E o \in Outcomes :
        /\ FailsWithin(o)
        /\ CASE o = "ok" ->
                  /\ data' = RemoteListing(Cardinality(DOMAIN remote_repos), last_id)
                  /\ exhausted' = (exhausted \/ RemoteListing(Cardinality(DOMAIN remote_repos), last_id) = <<>>)
                  /\ event' = [kind |-> "listed", since |-> last_id]
                  /\ UNCHANGED <<pc, error>>
             [] o = "http" ->
                  \* "Exit immediately": the generator returns, step 3 is complete
                  /\ pc' = "done"
                  /\ event' = [kind |-> "list_failed", since |-> last_id]
                  /\ UNCHANGED <<data, exhausted, error>>
             [] o = "url" ->
                  /\ pc' = "raised"
                  /\ error' = "URLError"
                  /\ event' = [kind |-> "list_raised", since |-> last_id]
                  /\ UNCHANGED <<data, exhausted>>
    /\ UNCHANGED <<act_vars, fixed_vars, db_vars, existing_repos, updated_repos, tx, last_id,
                   curr, iterated, failed_repos, yielded, writes, apart_vars>>

\* One iteration of "for repo in data" (requests.py:107-118) up to the answer of the
\* metadata request: the repository is passed over, or yielded to the loop of step 3
\* (update.py:237-239)
ListEntry ==
    /\ pc = "fetch"
    /\ ~tx.open
    /\ data # <<>>
    /\ BelowLimit(curr, new_repo_limit)
    /\ LET repo == Head(data)
           full_name == FullName(repo.owner, repo.name)
       IN  /\ last_id' = repo.id
           /\ data' = Tail(data)
           /\ IF full_name \in updated_repos
              THEN /\ event' = [kind |-> "skipped", name |-> full_name]
                   /\ UNCHANGED <<tx, pc, error, yielded, faults>>
              ELSE \E answer \in RepoAnswers :
                     LET repo_data == request_repo(repo.owner, repo.name,
                                                   remote_repos[repo.id], answer)
                     IN  /\ FailsWithin(answer)
                         /\ CASE repo_data.kind = "raise" ->
                                   /\ pc' = "raised"
                                   /\ error' = repo_data.error
                                   /\ event' = [kind |-> "fetch_raised", name |-> full_name,
                                                 at |-> "metadata", discarded |-> {}]
                                   /\ UNCHANGED <<tx, yielded>>
                              [] repo_data.kind = "none" ->
                                   /\ event' = [kind |-> "not_yielded", name |-> full_name]
                                   /\ UNCHANGED <<tx, pc, error, yielded>>
                              [] OTHER ->
                                   /\ yielded' = Append(yielded, repo.id)
                                   /\ tx' = Answered("insert", 0, repo.id, Since(NoDate),
                                                     repo_data.data)
                                   /\ event' = [kind |-> "answered", name |-> full_name]
                                   /\ UNCHANGED <<pc, error>>
    /\ UNCHANGED <<act_vars, fixed_vars, db_vars, writes, curr, existing_repos, updated_repos,
                   iterated, failed_repos, list_requests, exhausted, apart_vars>>

\* The insert of the yielded repository is sent (update.py:241-265) with the values
\* request_repo returned: it draws the next id, and it waits when the other run's
\* transaction has inserted the repository. Executed, it returns no row when the
\* (owner, repo) is stored, and else update_activity is called (update.py:268,
\* requests.py:143-154)
InsertStatement ==
    /\ tx.open
    /\ tx.waits = "send"
    /\ tx.step = "insert"
    /\ repo_id_seq' = NextId(repo_id_seq)
    /\ LET ins == InsertRepo(repositories, NextId(repo_id_seq), tx.data)
           full_name == FullName(tx.data.owner, tx.data.repo)
       IN  CASE InsertWaits(other.tx, tx.data) ->
                  /\ tx' = Waiting("insert", NextId(repo_id_seq), tx.gid, tx.since, tx.data)
                  /\ event' = [kind |-> "waiting", name |-> full_name]
                  /\ UNCHANGED act_vars
             [] ~InsertWaits(other.tx, tx.data) /\ ins.id = 0 ->
                  \* row is None
                  /\ tx' = OpenTx("insert", 0, tx.gid, tx.since, tx.data, tx.data, FALSE)
                  /\ event' = [kind |-> "conflict", name |-> full_name, waited |-> FALSE]
                  /\ UNCHANGED act_vars
             [] OTHER ->
                  /\ tx' = OpenTx("insert", ins.id, tx.gid, tx.since, tx.data, tx.data, TRUE)
                  /\ CallBegins
                  /\ event' = [kind |-> "fetched", name |-> full_name]
    /\ UNCHANGED <<fixed_vars, repositories, activity, previous_places, duplicates, pc, error,
                   existing_repos, updated_repos, gen_vars, iterated, failed_repos, yielded,
                   writes, list_requests, exhausted, faults, apart_vars>>

\* The probe request of request_repo_activity (requests.py:151-176) inside the
\* transaction of a repository
ActivityProbe ==
    /\ tx.open
    /\ act_pc = "probe"
    /\ \E o \in Outcomes :
        LET stream == CommitsSince(remote_commits[tx.gid], tx.since)
            ap == AfterProbe(LinkOf(stream))
        IN  /\ FailsWithin(o)
            /\ IF o = "ok"
               THEN /\ act_stream' = stream
                    /\ act_pc' = ap.pc
                    /\ link' = IF LinkOf(stream).present THEN "present" ELSE "absent"
                    /\ pages_count' = ap.pages_count
                    /\ UNCHANGED act_failed
               ELSE /\ act_pc' = IF o = "http" THEN "done" ELSE "raised"
                    /\ act_failed' = (o = "http")
                    /\ UNCHANGED <<act_stream, link, pages_count>>
            /\ event' = [kind |-> "probed", outcome |-> o]
    /\ UNCHANGED <<page, last_date, commit_count, authors, act_out, act_requests, fixed_vars,
                   db_vars, pc, error, existing_repos, updated_repos, tx, gen_vars, iterated,
                   failed_repos, yielded, writes, list_requests, exhausted, apart_vars>>

\* One iteration of "for page in range(1, pages_count + 1)" (requests.py:181-217)
\* inside the transaction of a repository: the request of the page and the
\* activities the generator yields from its commits and, after the last page, the
\* activity of the remaining date (requests.py:219-225). The upserts of the
\* activities are statements of their own (UpsertStatement)
ActivityPage ==
    /\ tx.open
    /\ tx.waits = "none"
    /\ tx.pending = <<>>
    /\ act_pc = "pages"
    /\ act_requests' = act_requests + 1
    /\ \E o \in Outcomes :
        LET stream == CommitsSince(remote_commits[tx.gid], tx.since)
            st == AggPage(AggState(last_date, commit_count, authors, act_out),
                          RemotePage(stream, page))
            last == page + 1 > pages_count
            out == IF last THEN AggFinal(st) ELSE st.out
        IN  /\ FailsWithin(o)
            /\ IF o = "ok"
               THEN /\ act_stream' = stream
                    /\ page' = page + 1
                    /\ last_date' = st.last_date
                    /\ commit_count' = st.commit_count
                    /\ authors' = st.authors
                    /\ act_out' = out
                    /\ act_pc' = IF last THEN "done" ELSE "pages"
                    /\ tx' = [tx EXCEPT !.pending = SubSeq(out, Len(act_out) + 1, Len(out))]
                    /\ UNCHANGED act_failed
               ELSE /\ act_pc' = IF o = "http" THEN "done" ELSE "raised"
                    /\ act_failed' = (o = "http")
                    /\ UNCHANGED <<act_stream, page, last_date, commit_count, authors,
                                   act_out, tx>>
            /\ event' = [kind |-> "page", outcome |-> o]
    /\ UNCHANGED <<link, pages_count, fixed_vars, db_vars, pc, error, existing_repos,
                   updated_repos, gen_vars, iterated, failed_repos, yielded, writes,
                   list_requests, exhausted, apart_vars>>

\* update_activity sends the upsert of the next activity the generator has yielded
\* (update.py:36-55). The upsert of a row that the other run's transaction has
\* locked waits for the end of that transaction
UpsertStatement ==
    /\ tx.open
    /\ tx.waits = "none"
    /\ tx.pending # <<>>
    /\ IF RowLocked(other.tx, "activity", <<tx.id, Head(tx.pending).date>>)
       THEN /\ tx' = [tx EXCEPT !.waits = "upsert"]
            /\ event' = [kind |-> "waiting", name |-> FullName(tx.data.owner, tx.data.repo)]
       ELSE /\ tx' = [UpsertedOne(activity, tx, Head(tx.pending))
                         EXCEPT !.pending = Tail(tx.pending)]
            /\ event' = [kind |-> "upserted", date |-> Head(tx.pending).date]
    /\ UNCHANGED <<act_vars, fixed_vars, db_vars, pc, error, existing_repos, updated_repos,
                   gen_vars, iterated, failed_repos, yielded, writes, list_requests,
                   exhausted, faults, apart_vars>>

\* The block "with conn.transaction()" is left, every statement of it executed
\* (update.py:226, 264, 272): COMMIT after update_activity has returned or the insert
\* has returned no row, ROLLBACK when a request of update_activity raised
BlockEnds ==
    /\ tx.open
    /\ tx.waits = "none"
    /\ tx.pending = <<>>
    /\ Conflicted(tx) \/ act_pc \in {"done", "raised"}
    /\ LeaveBlock(tx, IF act_pc = "raised" THEN "url"
                      ELSE IF act_failed THEN "http" ELSE "ok")
    /\ UNCHANGED <<fixed_vars, repo_id_seq, previous_places, existing_repos, updated_repos,
                   last_id, data, iterated, failed_repos, yielded, list_requests, exhausted,
                   faults, apart_vars>>

\* The limit is reached (requests.py:96, 108): the generator returns and step 3 is
\* complete (update.py:274-275)
FetchDone ==
    /\ pc = "fetch"
    /\ ~tx.open
    /\ ~BelowLimit(curr, new_repo_limit)
    /\ pc' = "done"
    /\ data' = <<>>
    /\ event' = [kind |-> "fetch_done"]
    /\ UNCHANGED <<act_vars, fixed_vars, db_vars, error, existing_repos, updated_repos, tx,
                   last_id, curr, iterated, failed_repos, yielded, writes, list_requests,
                   exhausted, faults, apart_vars>>

\* The remote dataset changes, between two runs or between two requests of a run:
\* a repository's metadata, or a new commit
RemoteChange ==
    /\ runs > 0
    /\ pc \in {"done", "raised"} => runs < MaxRuns
    /\ changes < MaxChanges
    /\ changes' = changes + 1
    /\ \E gid \in DOMAIN remote_repos :
        \E m \in ChangedMetas(remote_repos[gid]) \cup {remote_repos[gid]} :
            IF m = remote_repos[gid]
            THEN /\ remote_commits' = [remote_commits EXCEPT ![gid] = <<NewCommit>> \o @]
                 /\ UNCHANGED remote_repos
            ELSE /\ remote_repos' = [remote_repos EXCEPT ![gid] = m]
                 /\ UNCHANGED remote_commits
    /\ event' = [kind |-> "remote_changed"]
    /\ UNCHANGED <<act_vars, db_vars, run_vars, gen_vars, iterated, failed_repos, yielded,
                   writes, start_repositories, list_requests, exhausted, faults, apart_vars>>

Next ==
    \/ StartRun \/ Step1 \/ Step2Select \/ UpdateRepo \/ UpdateStatement \/ UpdateDone
    \/ ListRequest \/ ListEntry \/ InsertStatement \/ ActivityProbe \/ ActivityPage
    \/ UpsertStatement \/ BlockEnds \/ FetchDone \/ RemoteChange

Spec == Init /\ [][Next]_vars

-----------------------------------------------------------------------------
(* Two processes run update_database on one database and one remote: the cloud
   function is invoked while an earlier invocation is still running. The variables
   of a run describe the run of the process self; the run of the other process is
   suspended, its values kept in other, until the scheduler switches. The database
   executes the statements of both (read committed): a statement sees the committed
   rows and those of its own transaction, and waits for the end of the other
   transaction where it needs a row or a key that transaction has locked. *)

\* The merge of step 1 begins (update.py:118-142): the statement reads repositories
\* and previous_places as they are committed now, and writes when it completes (Step1)
MergeReads ==
    /\ pc = "rank"
    /\ ~cfg.skip_rank_update
    /\ merge_snapshot = <<>>
    /\ merge_snapshot' = << Snapshot(repositories, previous_places) >>
    /\ event' = [kind |-> "merge_reads"]
    /\ UNCHANGED <<act_vars, db_vars, remote_vars, run_vars, gen_vars, iterated, failed_repos,
                   yielded, writes, start_repositories, list_requests, exhausted, faults,
                   changes, self, other>>

\* The insert of step 3 (update.py:242-265) that waited is executed, the other run's
\* transaction having ended: its row is stored if that transaction committed, and
\* then this insert returns no row; it is gone if that transaction was rolled back
InsertResumes ==
    /\ tx.open
    /\ tx.waits = "insert"
    /\ ~InsertWaits(other.tx, tx.data)
    /\ LET ins == InsertRepo(repositories, tx.id, tx.data)
           full_name == FullName(tx.data.owner, tx.data.repo)
       IN  IF ins.id = 0
           THEN \* row is None
                /\ tx' = [OpenTx("insert", 0, tx.gid, tx.since, tx.data, tx.data, FALSE)
                             EXCEPT !.waited = TRUE]
                /\ event' = [kind |-> "conflict", name |-> full_name, waited |-> TRUE]
                /\ UNCHANGED act_vars
           ELSE /\ tx' = [OpenTx("insert", ins.id, tx.gid, tx.since, tx.data, tx.data, TRUE)
                             EXCEPT !.waited = TRUE]
                /\ CallBegins
                /\ event' = [kind |-> "fetched", name |-> full_name]
    /\ UNCHANGED <<fixed_vars, db_vars, pc, error, existing_repos, updated_repos, gen_vars,
                   iterated, failed_repos, yielded, writes, list_requests, exhausted,
                   faults, apart_vars>>

\* The update of step 2 (update.py:186-213) that waited is executed on the row as the
\* other run's transaction left it
UpdateResumes ==
    /\ tx.open
    /\ tx.waits = "update"
    /\ ~RowLocked(other.tx, "repositories", tx.id)
    /\ LET upd == UpdateRow(repositories[tx.id], tx.data)
       IN  tx' = [OpenTx("update", tx.id, tx.gid, tx.since, tx.data, upd.row, upd.written)
                    EXCEPT !.waited = TRUE]
    /\ CallBegins
    /\ event' = [kind |-> "fetched", name |-> FullName(tx.data.owner, tx.data.repo)]
    /\ UNCHANGED <<fixed_vars, db_vars, pc, error, existing_repos, updated_repos, gen_vars,
                   iterated, failed_repos, yielded, writes, list_requests, exhausted, faults,
                   apart_vars>>

\* The upsert (update.py:38-55) that waited is executed, the other run's transaction
\* having ended
UpsertResumes ==
    /\ tx.open
    /\ tx.waits = "upsert"
    /\ ~RowLocked(other.tx, "activity", <<tx.id, Head(tx.pending).date>>)
    /\ tx' = [UpsertedOne(activity, tx, Head(tx.pending))
                 EXCEPT !.waits = "none", !.pending = Tail(tx.pending)]
    /\ event' = [kind |-> "upserted", date |-> Head(tx.pending).date]
    /\ UNCHANGED <<act_vars, fixed_vars, db_vars, pc, error, existing_repos, updated_repos,
                   gen_vars, iterated, failed_repos, yielded, writes, list_requests,
                   exhausted, faults, apart_vars>>

\* The values of the variables of a run
Local ==
    [act_stream |-> act_stream, act_pc |-> act_pc, act_failed |-> act_failed, link |-> link,
     page |-> page, pages_count |-> pages_count, last_date |-> last_date,
     commit_count |-> commit_count, authors |-> authors, act_out |-> act_out,
     act_requests |-> act_requests, cfg |-> cfg, pc |-> pc, error |-> error,
     new_repo_limit |-> new_repo_limit, after_github_id |-> after_github_id,
     existing_repos |-> existing_repos, updated_repos |-> updated_repos, tx |-> tx,
     merge_snapshot |-> merge_snapshot, last_id |-> last_id, curr |-> curr, data |-> data,
     iterated |-> iterated, failed_repos |-> failed_repos, yielded |-> yielded,
     writes |-> writes, start_repositories |-> start_repositories, event |-> event,
     list_requests |-> list_requests, exhausted |-> exhausted]

\* The scheduler switches to the other process
Switch ==
    /\ self' = 3 - self
    /\ other' = Local
    /\ act_stream' = other.act_stream
    /\ act_pc' = other.act_pc
    /\ act_failed' = other.act_failed
    /\ link' = other.link
    /\ page' = other.page
    /\ pages_count' = other.pages_count
    /\ last_date' = other.last_date
    /\ commit_count' = other.commit_count
    /\ authors' = other.authors
    /\ act_out' = other.act_out
    /\ act_requests' = other.act_requests
    /\ cfg' = other.cfg
    /\ pc' = other.pc
    /\ error' = other.error
    /\ new_repo_limit' = other.new_repo_limit
    /\ after_github_id' = other.after_github_id
    /\ existing_repos' = other.existing_repos
    /\ updated_repos' = other.updated_repos
    /\ tx' = other.tx
    /\ merge_snapshot' = other.merge_snapshot
    /\ last_id' = other.last_id
    /\ curr' = other.curr
    /\ data' = other.data
    /\ iterated' = other.iterated
    /\ failed_repos' = other.failed_repos
    /\ yielded' = other.yielded
    /\ writes' = other.writes
    /\ start_repositories' = other.start_repositories
    /\ event' = other.event
    /\ list_requests' = other.list_requests
    /\ exhausted' = other.exhausted
    /\ UNCHANGED <<db_vars, remote_vars, proc, runs, faults, changes>>

\* The arguments the process p calls update_database with: the first one stops
\* after one new repository, the second one after two
OverlapConfig(p) == Config(None, FALSE, FALSE, <<p>>, -1)

\* The history of the first repository fills more than one page: 101 commits of the
\* newest day, one of the day before
LongDay == Expand(<< Commit(TRUE, 2, "A"), Commit(TRUE, 1, "B") >>, 1, PER_PAGE)

OverlapStream(gid) == IF gid = 1 THEN LongDay ELSE TwoDays

\* The tables as an earlier run has left them, called with new_repo_limit 1 on the
\* empty tables, no request of it failing: the first repository the remote lists and
\* its activity are stored, and no place, since the merge of step 1 found no row
StoredByFirstRun ==
    LET d == RepoData(RepoNames[1].owner, RepoNames[1].repo, InitMeta(1))
        ins == InsertRepo(<<>>, NextId(0), d)
        ua == update_activity(<<>>, ins.id, OverlapStream(1), NoDate, NoFault)
    IN  [repositories |-> ins.repositories, repo_id_seq |-> NextId(0),
         activity |-> ua.activity, previous_places |-> <<>>]

\* Two processes that have not called update_database yet, on the tables one run
\* has filled
InitOverlap ==
    /\ IdleActivity
    /\ IdleRun
    /\ repositories = StoredByFirstRun.repositories
    /\ repo_id_seq = StoredByFirstRun.repo_id_seq
    /\ activity = StoredByFirstRun.activity
    /\ previous_places = StoredByFirstRun.previous_places
    /\ duplicates = {}
    /\ remote_repos = [gid \in 1..NumOverlapRemote |-> InitMeta(gid)]
    /\ remote_commits = [gid \in 1..NumOverlapRemote |-> OverlapStream(gid)]
    /\ runs = 1
    /\ faults = 0
    /\ changes = 0
    /\ cfg = OverlapConfig(1)
    /\ proc = NoProcess
    /\ self = 1
    /\ other = Suspended(OverlapConfig(2))

NextOverlap ==
    \/ StartRun \/ MergeReads \/ Step1 \/ Step2Select \/ UpdateRepo \/ UpdateStatement
    \/ UpdateResumes \/ UpdateDone \/ ListRequest \/ ListEntry \/ InsertStatement
    \/ InsertResumes \/ ActivityProbe \/ ActivityPage \/ UpsertStatement \/ UpsertResumes
    \/ BlockEnds \/ FetchDone \/ RemoteChange \/ Switch

SpecOverlap == InitOverlap /\ [][NextOverlap]_vars

-----------------------------------------------------------------------------
(* One repository through successive runs, over every history of Streams *)

\* The remote lists one repository; its history is newest first
Descending(u) == \A i \in 1..(Len(u) - 1) : u[i].date >= u[i + 1].date

\* The histories of the repository: two dates, two authors, a commit without a
\* committer, over one page or two
ResumeStreams ==
    { x \in Streams :
        /\ Descending(SelectSeq(x, LAMBDA c : parse_commit(c).ok))
        /\ \A i \in 1..Len(x) :
              x[i] \in { Commit(TRUE, 2, "A"), Commit(TRUE, 1, "A"), Commit(TRUE, 1, "B"),
                         Commit(FALSE, NoDate, NoName) } }

InitResume ==
    /\ IdleActivity
    /\ IdleDatabase
    /\ remote_repos = << Meta(1, 0, 0, 0, "py") >>
    /\ remote_commits \in { << st >> : st \in ResumeStreams }
    /\ cfg = Config(None, TRUE, FALSE, <<1>>, -1)
    /\ proc = NoProcess
    /\ Alone

SpecResume == InitResume /\ [][Next]_vars

-----------------------------------------------------------------------------
(* The entry points: the cloud-function handler (handler.py) and the command line
   (__main__.py). A string of the environment is the sequence of its characters;
   a variable of the environment is <<>> when unset and <<string>> when set. *)

DEFAULT_UPDATE_REPO_SINCE == 0
DEFAULT_UPDATE_REPO_UNTIL == <<>>
DEFAULT_NEW_REPO_LIMIT == <<>>
DEFAULT_AFTER_GITHUB_ID == 815368990

Digits == <<"0", "1", "2", "3", "4", "5", "6", "7", "8", "9">>
IsDigit(c) == \E i \in 1..Len(Digits) : Digits[i] = c
DigitValue(c) == (CHOOSE i \in 1..Len(Digits) : Digits[i] = c) - 1

RECURSIVE Decimal(_)
Decimal(s) ==
    IF s = <<>> THEN 0
    ELSE 10 * Decimal(SubSeq(s, 1, Len(s) - 1)) + DigitValue(s[Len(s)])

\* The characters int() strips from both ends of a string: the white space of
\* ASCII (space, \t, \n, vertical tab, \f, \r) and, of the characters above it
\* that a string of the model can hold, next line (U+0085) and no-break space
\* (U+00A0). The separators U+001C..U+001F are not among them.
Whitespace == {" ", "\t", "\n", "", "\f", "\r", "", " "}

\* str.strip as int() applies it: the string without the white space at its ends
Strip(s) ==
    LET solid == {i \in 1..Len(s) : s[i] \notin Whitespace}
    IN  IF solid = {} THEN <<>>
        ELSE SubSeq(s, CHOOSE i \in solid : \A j \in solid : i <= j,
                       CHOOSE i \in solid : \A j \in solid : i >= j)

\* sys.int_info.default_max_str_digits: int() refuses a string of more digits
default_max_str_digits == 4300

\* int(value) of a string (handler.py:24): white space at both ends is dropped;
\* what is left is an optional sign and decimal digits, where a single underscore
\* may stand between two digits; anything else is a ValueError
ParseInt(s) ==
    LET t == Strip(s)
        signed == t # <<>> /\ Head(t) \in {"-", "+"}
        body == IF signed THEN Tail(t) ELSE t
        grouped ==
            /\ body # <<>>
            /\ \A i \in 1..Len(body) : IsDigit(body[i]) \/ body[i] = "_"
            /\ IsDigit(body[1]) /\ IsDigit(body[Len(body)])
            /\ \A i \in 1..(Len(body) - 1) : ~(body[i] = "_" /\ body[i + 1] = "_")
        digits == SelectSeq(body, IsDigit)
    IN  IF ~grouped \/ Len(digits) > default_max_str_digits
        THEN [error |-> "ValueError", value |-> 0]
        ELSE [error |-> None,
              value |-> IF Head(t) = "-" THEN 0 - Decimal(digits) ELSE Decimal(digits)]

\* bool(value) of os.environ.get(..): None and the empty string are false
Truthy(v) == v # <<>> /\ v[1] # <<>>

\* handler.py:19-24, applied to os.environ.get('NEW_REPO_LIMIT', DEFAULT_NEW_REPO_LIMIT):
\* the result is <<>> for None and <<n>> for the integer n
int_or_none(v) ==
    IF v = <<>> THEN [error |-> None, value |-> DEFAULT_NEW_REPO_LIMIT]
    ELSE LET r == ParseInt(v[1]) IN [error |-> r.error, value |-> <<r.value>>]

\* handler.py:81, 90: int_or_none(os.environ.get('NEW_REPO_SINCE', DEFAULT_AFTER_GITHUB_ID))
AfterGithubIdOf(v) ==
    IF v = <<>> THEN [error |-> None, value |-> DEFAULT_AFTER_GITHUB_ID] ELSE ParseInt(v[1])

\* init_logging (common/logging.py:27-40, parser/logging.py:26-39)
init_logging(p, use_new_handler) ==
    IF p.called THEN [error |-> None, proc |-> p]
    ELSE IF use_new_handler
         THEN [error |-> None, proc |-> [p EXCEPT !.called = TRUE, !.handlers = @ + 1]]
         ELSE IF p.handlers = 0
              THEN [error |-> "IndexError", proc |-> p]
              ELSE [error |-> None, proc |-> [p EXCEPT !.called = TRUE]]

\* The parameters of update_database (update.py:58-67)
Parameters ==
    {"database_uri", "github_token", "skip_rank_update", "skip_repo_update",
     "new_repo_limit", "after_github_id"}

\* Python binds the arguments of a call (the two positional arguments are fields of
\* the record as well): none of the six parameters has a default, so a missing one
\* is a TypeError, and so is a keyword that is no parameter
Bind(kwargs) == IF DOMAIN kwargs = Parameters THEN None ELSE "TypeError"

\* Connection.connect (update.py:113)
Connect(up) == IF up THEN None ELSE "OperationalError"

\* update_database from the call to the connection (update.py:58-113)
Call(kwargs, up) ==
    LET failed(e) == [error |-> e, new_repo_limit |-> 0, after_github_id |-> 0]
    IN  IF Bind(kwargs) # None THEN failed(Bind(kwargs))
        ELSE IF kwargs.database_uri = None THEN failed("TypeError")
        ELSE LET v == VerifyParameters(kwargs)
             IN  IF v.error # None THEN v
                 ELSE IF Connect(up) # None THEN failed(Connect(up))
                 ELSE v

\* "except Exception" (handler.py:95): every exception the model raises is one
Caught(e) == e # None

\* The environment of the cloud function
Envs ==
    [DATABASE_URI : {None, "uri"}, GITHUB_TOKEN : {None, "token"},
     SKIP_RANK_UPDATE : {<<>>, << <<"0">> >>}, SKIP_REPO_UPDATE : {<<>>, << <<>> >>},
     NEW_REPO_LIMIT : {<<>>, << <<"1">> >>, << <<" ", "1", "\n">> >>,
                       << <<"0", "_", "1">> >>, << <<"x">> >>},
     NEW_REPO_SINCE : {<<>>, << <<"0">> >>, << <<" ", "1">> >>}]

\* The arguments of the command line after argparse (__main__.py:13-74)
Argvs ==
    [database_uri : {"uri"}, github_token : {None},
     skip_rank_update : BOOLEAN, skip_repo_update : {FALSE},
     update_repo_since : {DEFAULT_UPDATE_REPO_SINCE, 2},
     update_repo_until : {DEFAULT_UPDATE_REPO_UNTIL, <<2>>},
     new_repo_limit : {DEFAULT_NEW_REPO_LIMIT, <<1>>},
     new_repo_since : {DEFAULT_AFTER_GITHUB_ID, 0}]

\* What importing parser.update raises (handler.py:74, __main__.py:77). update.py:8
\* imports parser.requests, and requests.py:14 imports MAX_AUTHOR_NAME_LENGTH from
\* common.models, which as it stands defines no such name: ImportError. None is the
\* build in which common.models defines the name, the one every run of
\* update_database presupposes
ImportOutcomes == {None, "ImportError"}

\* The process starts with the root logger as the runtime left it
InitEntry ==
    /\ IdleActivity
    /\ IdleDatabase
    /\ remote_repos = [gid \in RemoteIds |-> Meta(1, 0, 0, 0, "py")]
    /\ remote_commits = [gid \in RemoteIds |-> InitStream(gid)]
    /\ cfg = <<>>
    /\ proc \in { Process("none", FALSE, h, imp) : h \in 0..1, imp \in ImportOutcomes }
    /\ Alone

\* A call of update_database begins or fails: what StartRun assigns
Enter(kwargs, v) ==
    /\ runs' = runs + 1
    /\ cfg' = kwargs
    /\ error' = v.error
    /\ pc' = IF v.error = None THEN "rank" ELSE "raised"
    /\ new_repo_limit' = v.new_repo_limit
    /\ after_github_id' = v.after_github_id
    /\ existing_repos' = {}
    /\ updated_repos' = {}
    /\ last_id' = 0 /\ curr' = 0 /\ data' = <<>>
    /\ iterated' = {}
    /\ failed_repos' = {}
    /\ yielded' = <<>>
    /\ writes' = {}
    /\ start_repositories' = repositories
    /\ list_requests' = 0
    /\ exhausted' = FALSE
    /\ UNCHANGED <<act_vars, db_vars, remote_vars, tx, faults, apart_vars, changes>>

\* handler is invoked (handler.py:66-91)
HandlerStart ==
    /\ proc.entry = "none"
    /\ pc \in {"idle", "done", "raised"}
    /\ runs < MaxRuns
    /\ \E env \in Envs, up \in BOOLEAN :
        LET il == init_logging(proc, FALSE)
            limit == int_or_none(env.NEW_REPO_LIMIT)
            after == AfterGithubIdOf(env.NEW_REPO_SINCE)
            kwargs == [database_uri |-> env.DATABASE_URI,
                       github_token |-> env.GITHUB_TOKEN,
                       skip_rank_update |-> Truthy(env.SKIP_RANK_UPDATE),
                       skip_repo_update |-> Truthy(env.SKIP_REPO_UPDATE),
                       new_repo_limit |-> limit.value,
                       after_github_id |-> after.value]
        IN  IF il.error # None
            THEN \* handler.py:72 is outside the try statement
                 /\ event' = [kind |-> "handler_raised", error |-> il.error]
                 /\ UNCHANGED <<act_vars, db_vars, remote_vars, run_vars, gen_vars, iterated,
                                failed_repos, yielded, writes, start_repositories,
                                list_requests, exhausted, faults, apart_vars, changes>>
            ELSE IF il.proc.import_error # None
            THEN \* handler.py:74 is outside the try statement as well; logging is
                 \* initialised by then
                 /\ proc' = il.proc
                 /\ event' = [kind |-> "handler_raised", error |-> il.proc.import_error]
                 /\ UNCHANGED <<act_vars, db_vars, remote_vars, cfg, pc, error, runs,
                                new_repo_limit, after_github_id, existing_repos,
                                updated_repos, tx, gen_vars, iterated, failed_repos, yielded,
                                writes, start_repositories, list_requests, exhausted, faults,
                                apart_vars, changes>>
            ELSE /\ proc' = [il.proc EXCEPT !.entry = "handler"]
                 /\ event' = [kind |-> "handler_called", env |-> env, up |-> up]
                 /\ IF limit.error # None \/ after.error # None
                    THEN \* handler.py:89-90: the arguments are evaluated inside the try
                         Enter(kwargs, [error |-> "ValueError", new_repo_limit |-> 0,
                                        after_github_id |-> 0])
                    ELSE Enter(kwargs, Call(kwargs, up))

\* handler returns (handler.py:93-107)
HandlerReturn ==
    /\ proc.entry = "handler"
    /\ pc \in {"done", "raised"}
    /\ proc' = [proc EXCEPT !.entry = "none"]
    /\ event' = IF error = None
                THEN [kind |-> "handler_returned", statusCode |-> 200, body |-> "Success"]
                ELSE IF Caught(error)
                     THEN [kind |-> "handler_returned", statusCode |-> 500,
                           body |-> "An error occurred during database update"]
                     ELSE [kind |-> "handler_raised", error |-> error]
    /\ UNCHANGED <<act_vars, db_vars, remote_vars, cfg, pc, error, runs, new_repo_limit,
                   after_github_id, existing_repos, updated_repos, tx, gen_vars, iterated,
                   failed_repos, yielded, writes, start_repositories, list_requests,
                   exhausted, faults, apart_vars, changes>>

\* python -m parser (__main__.py:74-95), in a process of its own
MainStart ==
    /\ proc.entry = "none"
    /\ pc \in {"idle", "done", "raised"}
    /\ runs < MaxRuns
    /\ \E argv \in Argvs, up \in BOOLEAN :
        LET il == init_logging(NoProcess, TRUE)
            kwargs == [database_uri |-> argv.database_uri,
                       github_token |-> argv.github_token,
                       skip_rank_update |-> argv.skip_rank_update,
                       skip_repo_update |-> argv.skip_repo_update,
                       update_repo_since |-> argv.update_repo_since,
                       update_repo_until |-> argv.update_repo_until,
                       new_repo_limit |-> argv.new_repo_limit,
                       after_github_id |-> argv.new_repo_since]
        IN  IF proc.import_error # None
            THEN \* __main__.py:77: the exception ends the process before init_logging
                 /\ event' = [kind |-> "main_exited", status |-> 1,
                               error |-> proc.import_error]
                 /\ UNCHANGED <<act_vars, db_vars, remote_vars, run_vars, gen_vars, iterated,
                                failed_repos, yielded, writes, start_repositories,
                                list_requests, exhausted, faults, apart_vars, changes>>
            ELSE /\ il.error = None
                 /\ proc' = [proc EXCEPT !.entry = "main"]
                 /\ event' = [kind |-> "main_called", up |-> up]
                 /\ Enter(kwargs, Call(kwargs, up))

\* The process of the command line ends: status 1 when an exception escaped
MainExit ==
    /\ proc.entry = "main"
    /\ pc \in {"done", "raised"}
    /\ proc' = [proc EXCEPT !.entry = "none"]
    /\ event' = [kind |-> "main_exited", status |-> IF error = None THEN 0 ELSE 1,
                  error |-> error]
    /\ UNCHANGED <<act_vars, db_vars, remote_vars, cfg, pc, error, runs, new_repo_limit,
                   after_github_id, existing_repos, updated_repos, tx, gen_vars, iterated,
                   failed_repos, yielded, writes, start_repositories, list_requests,
                   exhausted, faults, apart_vars, changes>>

NextEntry ==
    \/ HandlerStart \/ HandlerReturn \/ MainStart \/ MainExit
    \/ Step1 \/ Step2Select \/ UpdateRepo \/ UpdateStatement \/ UpdateDone
    \/ ListRequest \/ ListEntry \/ InsertStatement \/ ActivityProbe \/ ActivityPage
    \/ UpsertStatement \/ BlockEnds \/ FetchDone

SpecEntry == InitEntry /\ [][NextEntry]_vars

-----------------------------------------------------------------------------
(* Properties of request_repo_activity *)

\* The commits of a stream that carry a committer date
Usable(stream) == SelectSeq(stream, LAMBDA c : parse_commit(c).ok)

\* Same-date commits are adjacent: a date seen earlier in the stream is the date
\* of the commit just before
Contiguous(u) ==
    \A j \in 2..Len(u) :
        (\E i \in 1..(j - 1) : u[i].date = u[j].date) => u[j - 1].date = u[j].date

DatesOf(u) == { u[i].date : i \in 1..Len(u) }

\* One aggregate per date run of the stream, in stream order
ExpectedActivity(stream) ==
    LET u == Usable(stream)
        starts == { i \in 1..Len(u) : i = 1 \/ u[i - 1].date # u[i].date }
        nth(k) == CHOOSE i \in starts : Cardinality({ j \in starts : j <= i }) = k
        runOf(d) == { j \in 1..Len(u) : u[j].date = d }
    IN  [k \in 1..Cardinality(starts) |->
            LET d == u[nth(k)].date
            IN  RepoActivity(d, Cardinality(runOf(d)),
                             { u[j].name : j \in { m \in runOf(d) : AuthorAccepted(u[m].name) } })]

\* C4: for a commit stream whose same-date commits are contiguous and whose requests
\* all succeed, request_repo_activity yields exactly one RepoActivity per distinct
\* date, in stream order, with commits the length of the date's run and authors the
\* present names within the length bound seen in that run.
C4_OneActivityPerDate ==
    (act_pc = "done" /\ ~act_failed /\ Contiguous(Usable(act_stream)))
        => /\ act_out = ExpectedActivity(act_stream)
           /\ Len(act_out) = Cardinality(DatesOf(Usable(act_stream)))
           /\ \A i, j \in 1..Len(act_out) : act_out[i].date = act_out[j].date => i = j

\* A two-page stream with two dates, a run of at least PER_PAGE commits, and a name dropped
C4_Witness ==
    /\ act_pc = "done" /\ ~act_failed /\ Contiguous(Usable(act_stream))
    /\ pages_count = 2 /\ act_requests = 2
    /\ Len(act_out) = 2
    /\ act_out[1].commits >= PER_PAGE
    /\ \E i \in 1..Len(act_stream) :
          parse_commit(act_stream[i]).ok /\ act_stream[i].name = LongName
    /\ \A i \in 1..2 : LongName \notin act_out[i].authors

\* C8: a probe response without a Link header makes request_repo_activity yield
\* nothing, request no page and raise nothing.
C8_NoLinkNoActivity ==
    link = "absent" => (act_pc = "done" /\ act_out = <<>> /\ act_requests = 0)

C8_Witness == link = "absent" /\ act_pc = "done" /\ act_requests = 0

\* C25 as stated: when the request of page p fails, pages 1..p are the pages
\* requested, of ceil(total / 100), and the call ends without raising.
C25_PageFailureEndsQuietly ==
    (act_requests > 0 /\ act_pc \in {"done", "raised"} /\ page <= pages_count) =>
        /\ act_pc = "done"
        /\ act_requests = page
        /\ pages_count = Ceil(Len(act_stream), PER_PAGE)

\* C26: when no request fails, the activities yielded for a stream are those yielded
\* for the stream without the commits that have no committer date: such a commit
\* neither ends a date's run nor adds to its commits or authors.
C26_DatelessCommitsDropped ==
    (act_pc = "done" /\ ~act_failed) =>
        act_out = request_repo_activity(Usable(act_stream), NoFault).out

\* A commit without a date lies between two commits of one date, which are
\* yielded as one activity of two commits
C26_Witness ==
    /\ act_pc = "done" /\ ~act_failed
    /\ Len(act_out) = 1 /\ act_out[1].commits = 2
    /\ \E i \in 2..(Len(act_stream) - 1) :
          /\ ~parse_commit(act_stream[i]).ok
          /\ parse_commit(act_stream[i - 1]).ok /\ parse_commit(act_stream[i + 1]).ok
          /\ act_stream[i - 1].date = act_stream[i + 1].date

-----------------------------------------------------------------------------
(* Properties of update_database *)

\* The run passed "Verify parameters"
Verified == runs > 0 /\ error \notin {"AttributeError", "TypeError"}

\* A run that follows another one, with no failed request and no change of the
\* remote since the first run began
SecondQuietRun == runs >= 2 /\ faults = 0 /\ changes = 0

\* The repository id a written row belongs to
RepoOfWrite(w) == IF w[1] = "activity" THEN w[2][1] ELSE w[2]

NameOfGid(gid) == FullName(RepoNames[gid].owner, RepoNames[gid].repo)

YieldedIds == { yielded[i] : i \in 1..Len(yielded) }

\* C1 as stated: a run that follows another one against an unchanged remote dataset,
\* with no failure, writes no row of repositories, activity or previous_places.
C1_SecondRunWritesNothing == SecondQuietRun => writes = {}

\* C1, amended: the second of two such runs writes no row of repositories or activity
\* that belongs to a repository stored when it began; what it may write are rows of
\* previous_places and newly discovered repositories with their activity.
C1_SecondRunRewritesNothing ==
    SecondQuietRun =>
        \A w \in writes :
            w[1] = "previous_places" \/ RepoOfWrite(w) \notin DOMAIN start_repositories

\* A second quiet run that re-fetched two stored repositories with stored activity,
\* walked the listing to its end, and wrote only previous_places
C1_Witness ==
    /\ SecondQuietRun /\ pc = "fetch" /\ exhausted
    /\ Cardinality(iterated) >= 2
    /\ \E k \in DOMAIN activity : k[1] \in DOMAIN start_repositories
    /\ writes # {}
    /\ \A w \in writes : w[1] = "previous_places"

\* C2: every repository step 2 iterated over, fetched or not, is in updated_repos
\* when step 3 runs, and step 3 yields (so inserts) none of them.
C2_UpdatedNeverInserted ==
    /\ pc = "fetch" => iterated \subseteq updated_repos
    /\ \A gid \in YieldedIds : NameOfGid(gid) \notin iterated

\* Step 3 inserted a repository after step 2 met a repository whose fetch failed
C2_Witness ==
    /\ pc = "fetch" /\ event.kind = "inserted"
    /\ failed_repos # {} /\ failed_repos \subseteq updated_repos
    /\ Cardinality(iterated) >= 2

\* C3: when step 1 is not skipped, from its completion to the end of the run the
\* place stored for every repository present at the start of the run is its rank
\* over the star counts of the start of the run.
C3_PlacesAreRanksAtStart ==
    (Verified /\ pc \notin {"idle", "rank"} /\ ~cfg.skip_rank_update)
        => \A id \in DOMAIN start_repositories :
               /\ id \in DOMAIN previous_places
               /\ previous_places[id] = Rank(start_repositories, id)

\* A completed run whose step 2 changed a rank that step 1 had stored
C3_Witness ==
    /\ Verified /\ pc = "done" /\ ~cfg.skip_rank_update
    /\ \E id \in DOMAIN start_repositories :
          /\ repositories[id].stars # start_repositories[id].stars
          /\ Rank(repositories, id) # Rank(start_repositories, id)
          /\ previous_places[id] = Rank(start_repositories, id)

\* C5: the generator yields at most new_repo_limit repositories, with GitHub ids
\* above after_github_id in strictly increasing order, none of them in skip_repos;
\* skipped entries are not counted: curr is the number of resumed yields, and the
\* generator stops on the limit only when it has yielded new_repo_limit repositories.
C5_YieldsBounded ==
    Verified =>
        /\ Len(yielded) <= new_repo_limit
        /\ \A i \in 1..Len(yielded) : yielded[i] > after_github_id
        /\ \A i, j \in 1..Len(yielded) : i < j => yielded[i] < yielded[j]
        /\ \A gid \in YieldedIds : NameOfGid(gid) \notin updated_repos
        /\ (pc # "raised" /\ ~tx.open) => curr = Len(yielded)
        /\ (tx.open /\ tx.step = "insert") => curr = Len(yielded) - 1
        /\ event.kind = "fetch_done" => Len(yielded) = new_repo_limit

\* The generator skipped the first listed repository, then yielded up to the limit
C5_Witness ==
    /\ Verified /\ event.kind = "fetch_done"
    /\ after_github_id = 1
    /\ Len(yielded) = new_repo_limit
    /\ yielded = <<3>>
    /\ NameOfGid(2) \in updated_repos

\* C6 as stated: discovery stops once the listing is exhausted: after a listing request
\* of a run has returned no entry, the run issues no further listing request.
C6_StopsWhenExhausted == [][exhausted => list_requests' <= list_requests]_vars

\* The ids of the rows of repositories that carry the name full_name
IdsOfName(repos, full_name) ==
    { i \in DOMAIN repos : FullName(repos[i].owner, repos[i].repo) = full_name }

\* A step of the run in which an insert of step 3 found the row stored and returned
\* no row, at once or after it waited
InsertConflicts ==
    /\ self' = self
    /\ event'.kind = "conflict"
    /\ yielded' # yielded \/ tx' # tx

\* A step of the run whose insert has returned no row: the next thing it does
ConflictLeaves ==
    /\ self' = self
    /\ Conflicted(tx)
    /\ event'.kind # "remote_changed"

\* A step of the run in which an insert of step 3 stored its row
InsertStores ==
    /\ self' = self
    /\ tx'.open /\ tx'.step = "insert" /\ tx'.row_written
    /\ ~(tx.open /\ tx.row_written)

\* C7: an insert of a repository whose (owner, repo) is stored stores no second
\* row: the table has one row of the name before and after, the insert returns no
\* row and raises nothing, the stored rows are as they were, the run requests and
\* writes no activity for the repository: the next thing it does is to leave the
\* block with nothing written, and it stays in the loop of step 3, the generator
\* resumed. An insert stores a row only of a name that is not stored.
C7_ConflictDoesNothing ==
    [][/\ InsertConflicts =>
             /\ Cardinality(IdsOfName(repositories, event'.name)) = 1
             /\ repositories' = repositories
             /\ activity' = activity
             /\ writes' = writes
             /\ error' = None /\ pc' = "fetch"
             /\ Conflicted(tx') /\ tx'.written = {} /\ act_pc' = "idle"
       /\ ConflictLeaves =>
             /\ event'.kind = "passed_over"
             /\ event'.name = FullName(tx.data.owner, tx.data.repo)
             /\ repositories' = repositories
             /\ activity' = activity
             /\ writes' = writes
             /\ error' = None /\ pc' = "fetch"
             /\ tx' = NoTx /\ act_pc = "idle" /\ act_pc' = "idle"
             /\ curr' = curr + 1
       /\ InsertStores =>
             /\ IdsOfName(repositories, FullName(tx'.data.owner, tx'.data.repo)) = {}
             /\ event'.kind # "conflict"]_vars

\* The insert met a row the other run had committed, of values that differ from the
\* fetched ones, and the run went on to request the listing above that repository
C7_Witness ==
    /\ event.kind = "listed"
    /\ \E gid \in YieldedIds :
          /\ event.since = gid
          /\ \E i \in IdsOfName(repositories, NameOfGid(gid)) :
                /\ <<"repositories", i>> \notin writes
                /\ i \notin DOMAIN start_repositories
                /\ repositories[i] # RepoData(repositories[i].owner, repositories[i].repo,
                                              remote_repos[gid])
                /\ \E k \in DOMAIN activity : k[1] = i

\* C9 as stated: a run whose new_repo_limit is None is accepted.
C9_UnsetLimitAccepted ==
    (runs > 0 /\ cfg.github_token = None /\ cfg.new_repo_limit = <<>>) => error # "TypeError"

\* C10 as stated: no failure of a request for one repository's metadata or activity
\* makes update_database raise.
C10_RepositoryFailuresIsolated ==
    ~(pc = "raised" /\ event.kind \in {"update_raised", "fetch_raised"})

\* C11: the repository write and the activity upserts of one pass are committed
\* together or not at all: after an exception left a repository's pass, no row of
\* repositories or activity of that repository is among the run's writes, a stored
\* repository's row is the one the run began with and a discovered repository is not
\* stored by this run; after a pass that was committed, the inserted row is there.
C11_UnitAtomic ==
    /\ event.kind \in {"update_raised", "fetch_raised"} =>
          /\ \A w \in writes :
                w[1] # "previous_places" => RepoOfWrite(w) \notin IdsOfName(repositories, event.name)
          /\ \A i \in IdsOfName(repositories, event.name) :
                i \in DOMAIN start_repositories /\ repositories[i] = start_repositories[i]
    /\ event.kind = "inserted" =>
          \E i \in IdsOfName(repositories, event.name) : <<"repositories", i>> \in writes

\* An exception left a pass after its repository statement was executed
C11_Witness ==
    /\ event.kind \in {"update_raised", "fetch_raised"}
    /\ event.at = "activity"
    /\ \E w \in event.discarded : w[1] = "repositories"

\* The GitHub ids of the repositories stored when the run began
StartGithubIds ==
    { GithubIdOf(FullName(start_repositories[i].owner, start_repositories[i].repo)) :
        i \in DOMAIN start_repositories }

\* C13 as stated: every listing request of a run asks for ids above the largest
\* GitHub id that earlier runs stored.
C13_ScanAboveIngested ==
    event.kind = "listed" => \A g \in StartGithubIds : event.since >= g

\* C13, amended: the first listing request of every run asks for the ids above the
\* configured after_github_id (0 when it is negative), whatever earlier runs stored,
\* and an entry the listing returns again for a stored repository is skipped by name.
C13_ScanFromConfiguredFloor ==
    /\ (event.kind = "listed" /\ list_requests = 1) =>
            event.since = Max(0, cfg.after_github_id)
    /\ (pc = "fetch" /\ event.kind = "skipped") =>
            (event.name \in updated_repos /\ last_id = GithubIdOf(event.name))

\* The first listing request of a later run asks again for a stored repository's id
C13_Witness ==
    /\ runs >= 2 /\ event.kind = "listed" /\ list_requests = 1
    /\ \E g \in StartGithubIds : event.since < g
    /\ data # <<>> /\ Head(data).id \in StartGithubIds

\* What request_repo can return for the stored row id: the remote's metadata, now or
\* after a change
FetchedFor(id) ==
    LET gid == GithubIdOf(FullName(repositories[id].owner, repositories[id].repo))
    IN  { RepoData(repositories[id].owner, repositories[id].repo, m) :
            m \in {remote_repos[gid]} \cup ChangedMetas(remote_repos[gid]) }

\* What request_repo can return for the listed repository gid
ListedData(gid) == RepoData(RepoNames[gid].owner, RepoNames[gid].repo, remote_repos[gid])

\* Aggregates request_repo_activity can yield
SomeActivities ==
    { RepoActivity(d, c, a) : d \in 1..2, c \in 1..2, a \in {{}, {"A"}, {"A", "B"}} }

UpdateTwice(id, d) ==
    LET first == UpdateRow(repositories[id], d)
    IN  [first |-> first, second |-> UpdateRow(first.row, d)]

MergeTwice ==
    LET first == MergePlaces(repositories, previous_places)
    IN  [first |-> first, second |-> MergePlaces(repositories, first.places)]

InsertTwice(d) ==
    LET first == InsertRepo(repositories, NextId(repo_id_seq), d)
    IN  [first |-> first,
         second |-> InsertRepo(first.repositories, NextId(NextId(repo_id_seq)), d)]

UpsertTwice(id, a) ==
    LET first == UpsertActivity(ActivityTable(activity), id, a)
    IN  [first |-> first,
         second |-> UpsertActivity(ActivityTable(first.activity), id, a)]

\* C14: on every store a run leaves, each of the four statements executed a second
\* time with the same input writes no row and leaves the table as the first
\* execution left it.
C14_StatementsIdempotent ==
    pc \in {"done", "raised"} =>
        /\ \A id \in DOMAIN repositories : \A d \in FetchedFor(id) :
                LET t == UpdateTwice(id, d)
                IN  ~t.second.written /\ t.second.row = t.first.row
        /\ LET t == MergeTwice
           IN  t.second.written = {} /\ t.second.places = t.first.places
        /\ \A gid \in RemoteIds :
                LET t == InsertTwice(ListedData(gid))
                IN  t.second.id = 0 /\ t.second.repositories = t.first.repositories
        /\ \A id \in DOMAIN repositories : \A a \in SomeActivities :
                LET t == UpsertTwice(id, a)
                IN  t.second.written = {} /\ t.second.activity = t.first.activity

\* A store on which the first execution of each statement writes: a row to update,
\* a rank to insert and one to change, a repository to insert, an activity row to
\* insert and one to change
C14_Witness ==
    /\ pc \in {"done", "raised"}
    /\ \E id \in DOMAIN repositories : \E d \in FetchedFor(id) :
            UpdateTwice(id, d).first.written
    /\ \E id \in MergeTwice.first.written : id \in DOMAIN previous_places
    /\ \E id \in MergeTwice.first.written : id \notin DOMAIN previous_places
    /\ \E gid \in RemoteIds : InsertTwice(ListedData(gid)).first.id # 0
    /\ \E id \in DOMAIN repositories : \E a \in SomeActivities :
            /\ <<id, a.date>> \in DOMAIN activity
            /\ UpsertTwice(id, a).first.written # {}
    /\ \E id \in DOMAIN repositories : \E a \in SomeActivities :
            /\ <<id, a.date>> \notin DOMAIN activity
            /\ UpsertTwice(id, a).first.written # {}

\* C15 as stated: a listing request that fails ends discovery without raising: step 3
\* is complete and no exception leaves update_database.
C15_ListingFailureEndsQuietly ==
    event.kind \in {"list_failed", "list_raised"} => (pc = "done" /\ error = None)

\* The rows of the name full_name that are stored or that a transaction in progress
\* has inserted
RowsOfName(full_name) ==
    IdsOfName(repositories, full_name)
        \cup { t.id : t \in { u \in {tx, other.tx} :
                                /\ u.open /\ u.step = "insert" /\ u.row_written
                                /\ FullName(u.data.owner, u.data.repo) = full_name } }

\* A step of the run in which the insert that waited for the other run's
\* transaction is executed
InsertResumed ==
    /\ self' = self
    /\ tx.open /\ tx.waits = "insert"
    /\ tx' # tx

\* C18: when both runs insert the same newly discovered (owner, repo), the second
\* insert waits for the first one's transaction, and never are two rows of the name
\* stored or inserted. If that transaction commits, the waiting run has lost: one
\* row of the name is stored, not written by it; its insert returns no row and
\* raises nothing, it requests and writes no activity for the repository: the next
\* thing it does is to leave the block with nothing written, and it stays in the
\* loop of step 3, the generator resumed. If that transaction is rolled back, the
\* waiting run inserts the row.
C18_RaceLoserContinues ==
    [][/\ \A gid \in RemoteIds : Cardinality(RowsOfName(NameOfGid(gid))) <= 1
       /\ InsertResumed =>
             LET name == FullName(tx.data.owner, tx.data.repo)
             IN  IF IdsOfName(repositories, name) # {}
                 THEN /\ event' = [kind |-> "conflict", name |-> name, waited |-> TRUE]
                      /\ Cardinality(IdsOfName(repositories', name)) = 1
                      /\ \A i \in IdsOfName(repositories', name) :
                            <<"repositories", i>> \notin writes'
                      /\ repositories' = repositories
                      /\ activity' = activity
                      /\ writes' = writes
                      /\ error' = None /\ pc' = "fetch"
                      /\ Conflicted(tx') /\ tx'.waited /\ tx'.written = {}
                      /\ act_pc' = "idle"
                 ELSE /\ other.pc = "raised"
                      /\ tx'.open /\ tx'.step = "insert" /\ tx'.row_written
                      /\ tx'.id = tx.id
                      /\ act_pc' = "probe"
       /\ (ConflictLeaves /\ tx.waited) =>
             /\ event' = [kind |-> "passed_over",
                           name |-> FullName(tx.data.owner, tx.data.repo), waited |-> TRUE]
             /\ \A i \in IdsOfName(repositories', event'.name) :
                   <<"repositories", i>> \notin writes'
             /\ writes' = writes
             /\ error' = None /\ pc' = "fetch"
             /\ tx' = NoTx /\ act_pc = "idle" /\ act_pc' = "idle"
             /\ curr' = curr + 1]_vars

\* The run that lost the race goes on: its insert waited, the other run committed the
\* repository with its activity, and this run is back in the loop of step 3
C18_Witness ==
    /\ event.kind = "passed_over" /\ event.waited
    /\ pc = "fetch" /\ error = None /\ ~tx.open
    /\ other.event.kind = "inserted" /\ other.event.name = event.name
    /\ \E i \in IdsOfName(repositories, event.name) : \E k \in DOMAIN activity : k[1] = i

\* C20 as stated: when the metadata request of a stored repository fails in step 2,
\* the run writes no row of that repository and goes on with the loop of step 2.
C20_FailedFetchSkipsRepository ==
    (\/ event.kind = "update_skipped"
     \/ (event.kind = "update_raised" /\ event.at = "metadata"))
    => /\ pc = "update"
       /\ \A w \in writes :
             w[1] # "previous_places" => RepoOfWrite(w) \notin IdsOfName(repositories, event.name)

\* C32 as stated: a listed repository whose metadata request fails or returns
\* invalid data is passed over and discovery goes on: it is not yielded, the
\* generator's cursor is at its id, and nothing is raised.
C32_FailedEntryPassedOver ==
    (\/ event.kind = "not_yielded"
     \/ (event.kind = "fetch_raised" /\ event.at = "metadata"))
    => /\ pc = "fetch" /\ error = None
       /\ last_id = GithubIdOf(event.name)
       /\ \A i \in 1..Len(yielded) : yielded[i] # GithubIdOf(event.name)

\* The names of the rows of repositories
StoredNames(repos) == { <<repos[i].owner, repos[i].repo>> : i \in DOMAIN repos }

\* C21: in a run with skip_repo_update, step 2 iterates over no stored repository
\* (no metadata or activity request for one), updated_repos is the set of the names
\* stored when step 2 is reached, which holds every name stored at the start, no row
\* of a repository in it is written, and step 3 yields and inserts none of them.
C21_SkippedUpdateStillDedupes ==
    [][(cfg.skip_repo_update /\ pc' \in {"fetch", "done"}) =>
          /\ iterated' = {} /\ failed_repos' = {}
          /\ updated_repos' = IF pc = "select" THEN StoredNames(repositories) ELSE updated_repos
          /\ StoredNames(start_repositories') \subseteq updated_repos'
          /\ \A i \in DOMAIN start_repositories' : repositories'[i] = start_repositories'[i]
          /\ \A w \in writes' :
                w[1] # "previous_places" =>
                    LET row == repositories'[RepoOfWrite(w)]
                    IN  FullName(row.owner, row.repo) \notin updated_repos'
          /\ \A i \in 1..Len(yielded') : NameOfGid(yielded'[i]) \notin updated_repos']_vars

\* A later run that skipped step 2 passed over a stored repository in the listing
\* and inserted a new one
C21_Witness ==
    /\ runs >= 2 /\ cfg.skip_repo_update /\ pc = "done"
    /\ DOMAIN start_repositories # {}
    /\ DOMAIN repositories # DOMAIN start_repositories
    /\ yielded # <<>>
    /\ after_github_id = 0

\* C22: in a run with skip_rank_update no step changes previous_places: no row is
\* inserted, updated or deleted.
C22_SkippedRankUntouched ==
    [][cfg.skip_rank_update => previous_places' = previous_places]_vars

\* A run that skipped step 1 stored a repository and left it without a snapshot row
C22_Witness ==
    /\ cfg.skip_rank_update /\ pc = "done"
    /\ \E i \in DOMAIN repositories :
          <<"repositories", i>> \in writes /\ i \notin DOMAIN previous_places

\* C23: the merge of step 1, when not skipped, deletes no row, leaves every stored
\* repository with one row that holds its current rank, and writes exactly the rows
\* that were missing or held another value.
C23_MergeWritesOnlyChanges ==
    [][(event'.kind = "rank" /\ ~cfg.skip_rank_update) =>
          /\ DOMAIN previous_places \subseteq DOMAIN previous_places'
          /\ DOMAIN previous_places' = DOMAIN repositories
          /\ \A id \in DOMAIN repositories : previous_places'[id] = Rank(repositories, id)
          /\ writes' \ writes =
                { <<"previous_places", id>> :
                    id \in { i \in DOMAIN repositories :
                                \/ i \notin DOMAIN previous_places
                                \/ previous_places[i] # previous_places'[i] } }]_vars

\* A merge updated one row, inserted one and left one as it was
C23_Witness ==
    /\ event.kind = "rank" /\ ~cfg.skip_rank_update
    /\ \E i, j, k \in DOMAIN previous_places :
          /\ i \in DOMAIN start_repositories /\ <<"previous_places", i>> \in writes
          /\ <<"previous_places", j>> \notin writes
          /\ k > j /\ k > i /\ <<"previous_places", k>> \in writes

\* C24: after the merge of step 1 the place of a repository is 1 plus the number
\* of stored repositories with strictly more stars, so places start at 1 and
\* repositories with equal stars have the same place.
C24_PlaceCountsMoreStars ==
    (event.kind = "rank" /\ ~cfg.skip_rank_update) =>
        \A id \in DOMAIN repositories :
            /\ previous_places[id] =
                  1 + Cardinality({ j \in DOMAIN repositories :
                                      repositories[j].stars > repositories[id].stars })
            /\ \A j \in DOMAIN repositories :
                  repositories[j].stars = repositories[id].stars
                      => previous_places[j] = previous_places[id]

\* Two repositories share place 1 and the next one has place 3
C24_Witness ==
    /\ event.kind = "rank" /\ ~cfg.skip_rank_update
    /\ \E i, j, k \in DOMAIN repositories :
          /\ i # j
          /\ repositories[i].stars = repositories[j].stars
          /\ repositories[k].stars < repositories[i].stars
          /\ previous_places[i] = 1 /\ previous_places[j] = 1 /\ previous_places[k] = 3

\* The tracked attributes of a row and of fetched data are all equal
SameAttributes(row, d) ==
    /\ row.stars = d.stars /\ row.watchers = d.watchers /\ row.forks = d.forks
    /\ row.open_issues = d.open_issues /\ row.language = d.language

\* C27: when step 2 has updated a repository whose fetched counts and language all
\* equal the stored ones, the repository row is not written and is unchanged; a
\* row that was written differed from the fetched data in some attribute.
C27_UnchangedRowNotWritten ==
    [][event'.kind = "updated" =>
          LET i == event'.id
              d == event'.data
              written == <<"repositories", i>> \in writes' \ writes
          IN  /\ SameAttributes(repositories[i], d) =>
                    (~written /\ repositories'[i] = repositories[i])
              /\ written => ~SameAttributes(repositories[i], d)]_vars

\* Step 2 wrote the row of one repository and has now left another, unchanged
\* at the remote, unwritten
C27_Witness ==
    /\ event.kind = "updated"
    /\ SameAttributes(repositories[event.id], event.data)
    /\ <<"repositories", event.id>> \notin writes
    /\ \E j \in DOMAIN start_repositories : <<"repositories", j>> \in writes

\* C29 as stated: a run that is given a token passes "Verify parameters" like the
\* same run without the token.
C29_TokenKeepsControlFlow ==
    (runs > 0 /\ cfg.github_token # None /\ event.kind = "start") =>
        LET without == VerifyParameters([cfg EXCEPT !.github_token = None])
        IN  /\ error = without.error
            /\ pc = IF without.error = None THEN "rank" ELSE "raised"

\* C30 as stated: when step 2 has fetched a repository's metadata and committed, the
\* stored counts and language equal the fetched ones.
C30_StoredEqualsFetched ==
    event.kind = "updated" => SameAttributes(repositories[event.id], event.data)

-----------------------------------------------------------------------------
(* Properties of one repository's passes *)

\* The number of commits of the date d that carry a committer date
CommitsOn(stream, d) ==
    Cardinality({ i \in 1..Len(stream) : parse_commit(stream[i]).ok /\ stream[i].date = d })

\* C12 as stated: once a pass of the repository has run to its end without a failed
\* request, the store holds an activity row with the right commit count for every
\* date of the remote history, whatever cut the earlier passes short.
C12_ResumeCompletes ==
    (changes = 0 /\ event.kind \in {"updated", "inserted"} /\ ~event.failed) =>
        LET stream == remote_commits[GithubIdOf(event.name)]
        IN  \A d \in DatesOf(Usable(stream)) :
                /\ <<event.id, d>> \in DOMAIN activity
                /\ activity[<<event.id, d>>].commits = CommitsOn(stream, d)

\* C28: a pass of step 2 over a repository requests its commits since the newest
\* date stored for it (since 1970-01-01 when none is stored) and changes no activity
\* row of an earlier date, nor a row of another repository; a pass of step 3 requests
\* since 1970-01-01.
C28_ActivityFromLastDate ==
    [][event'.kind \in {"updated", "inserted"} =>
          LET id == event'.id
              changed == { k \in DOMAIN activity' :
                             k \notin DOMAIN activity \/ activity'[k] # activity[k] }
              last == LastActivityDate(activity, id)
          IN  /\ \A k \in changed : k[1] = id
              /\ IF event'.kind = "inserted"
                 THEN event'.since = 0
                 ELSE /\ event'.since = (IF last = NoDate THEN 0 ELSE last)
                      /\ \A k \in changed : k[2] >= last]_vars

\* A pass of step 2 requested from the stored date 2, stored the new date 3 and
\* left the remote's older date, which the store lacks, alone
C28_Witness ==
    /\ runs >= 2 /\ event.kind = "updated" /\ ~event.failed
    /\ event.since = 2
    /\ <<event.id, 2>> \in DOMAIN activity
    /\ <<"activity", <<event.id, 3>>>> \in event.written
    /\ 1 \in DatesOf(Usable(remote_commits[GithubIdOf(event.name)]))
    /\ <<event.id, 1>> \notin DOMAIN activity

-----------------------------------------------------------------------------
(* Properties of the entry points *)

\* The stored repositories whose id lies within the bounds of the command line
WithinBounds(repos, since, until) ==
    { FullName(repos[i].owner, repos[i].repo) :
        i \in { j \in DOMAIN repos : j >= since /\ (until = <<>> \/ j <= until[1]) } }

\* C16 as stated: a run of the command line with bounds [since, until] on the stored
\* ids is accepted, and its step 2 iterates over exactly the repositories stored at
\* its start whose id lies within the bounds.
C16_BoundsRestrictUpdate ==
    event.kind = "main_exited" =>
        /\ event.status = 0
        /\ iterated = WithinBounds(start_repositories, cfg.update_repo_since,
                                   cfg.update_repo_until)

\* C19 as stated: handler never raises; it returns 200 exactly when update_database
\* returned, and 500 whenever update_database raised.
C19_HandlerNeverRaises ==
    /\ event.kind # "handler_raised"
    /\ event.kind = "handler_returned" =>
          /\ event.statusCode = 200 <=> (pc = "done" /\ error = None)
          /\ error # None => event.statusCode = 500

-----------------------------------------------------------------------------
(* Properties of the activities a cut-short call yields *)

\* C31: for a stream whose same-date commits are contiguous, every activity yielded
\* so far, in every state of the call and after a failed request, holds the number
\* of all commits of its date that carry a committer date; after a failed request
\* the date whose run was in progress has not been yielded.
C31_YieldedActivityComplete ==
    Contiguous(Usable(act_stream)) =>
        /\ \A i \in 1..Len(act_out) :
              act_out[i].commits = CommitsOn(act_stream, act_out[i].date)
        /\ (act_requests > 0 /\ act_pc \in {"done", "raised"} /\ page <= pages_count /\ commit_count > 0)
              => \A i \in 1..Len(act_out) : act_out[i].date # last_date

\* The request of page 2 failed while a date's run was in progress, after the
\* activity of an earlier date had been yielded
C31_Witness ==
    /\ Contiguous(Usable(act_stream))
    /\ act_failed /\ act_pc = "done"
    /\ act_requests = 2 /\ page = 2
    /\ Len(act_out) = 1
    /\ commit_count > 0
    /\ CommitsOn(act_stream, last_date) > commit_count
====
